---------------------------- MODULE Spec2Model ----------------------------
(***************************************************************************)
(* Model of the coordinate engine of coordinate-convert:                   *)
(*   CoordinateUtils (detectFormat, decimalToDMS, toUTM, calculateDistance,*)
(*   batchProcess and its single-item operations) and DMSConverter         *)
(*   (parseDMS, compactDMSToDecimal, looseDMSToDecimal, dmsToDecimal,      *)
(*   parseCoordinatePair).                                                 *)
(*                                                                         *)
(* Conventions                                                             *)
(*  - A string is a sequence of one-character strings.                     *)
(*  - A JavaScript number that denotes degrees, minutes or seconds is the  *)
(*    integer  value * Unit  (Unit = 360000, i.e. one hundredth of an arc  *)
(*    second per unit of a degree).  All inputs of the model have at most  *)
(*    FracDigits decimals, so this arithmetic is exact; the rounding error *)
(*    of IEEE doubles is not modelled.                                     *)
(*  - A regular expression is a sequence of elements (character class     *)
(*    repetitions, optional groups) matched by a backtracking matcher that *)
(*    tries the alternatives in the order of the JavaScript engine.        *)
(***************************************************************************)
EXTENDS Integers, Sequences, FiniteSets, TLC

(***************************************************************************)
(* Characters                                                              *)
(***************************************************************************)
DegSign == "°"
Apos == "'"
DQuote == "\""
Digits == {"0", "1", "2", "3", "4", "5", "6", "7", "8", "9"}
WhiteSpace == {" "}
DirLetters == {"N", "S", "E", "W"}

DigitVal(c) ==
    CASE c = "0" -> 0 [] c = "1" -> 1 [] c = "2" -> 2 [] c = "3" -> 3
      [] c = "4" -> 4 [] c = "5" -> 5 [] c = "6" -> 6 [] c = "7" -> 7
      [] c = "8" -> 8 [] c = "9" -> 9

DigitChar(n) ==
    CASE n = 0 -> "0" [] n = 1 -> "1" [] n = 2 -> "2" [] n = 3 -> "3"
      [] n = 4 -> "4" [] n = 5 -> "5" [] n = 6 -> "6" [] n = 7 -> "7"
      [] n = 8 -> "8" [] n = 9 -> "9"

LowerLetters ==
    << "a", "b", "c", "d", "e", "f", "g", "h", "i", "j", "k", "l", "m",
       "n", "o", "p", "q", "r", "s", "t", "u", "v", "w", "x", "y", "z" >>
UpperLetters ==
    << "A", "B", "C", "D", "E", "F", "G", "H", "I", "J", "K", "L", "M",
       "N", "O", "P", "Q", "R", "S", "T", "U", "V", "W", "X", "Y", "Z" >>

\* String.prototype.toUpperCase on one character
UpperChar(c) ==
    IF \E k \in 1..26 : LowerLetters[k] = c
    THEN UpperLetters[CHOOSE k \in 1..26 : LowerLetters[k] = c]
    ELSE c

ToUpper(s) == [k \in 1..Len(s) |-> UpperChar(s[k])]

\* Both cases of a letter class, for a regular expression with the i flag.
LowerOf(c) ==
    IF \E k \in 1..26 : UpperLetters[k] = c
    THEN LowerLetters[CHOOSE k \in 1..26 : UpperLetters[k] = c]
    ELSE c

IgnoreCase(cls) == cls \cup {UpperChar(c) : c \in cls} \cup {LowerOf(c) : c \in cls}

RECURSIVE TrimStart(_)
TrimStart(s) ==
    IF s # <<>> /\ Head(s) \in WhiteSpace THEN TrimStart(Tail(s)) ELSE s

RECURSIVE TrimEnd(_)
TrimEnd(s) ==
    IF s # <<>> /\ s[Len(s)] \in WhiteSpace
    THEN TrimEnd(SubSeq(s, 1, Len(s) - 1)) ELSE s

\* String.prototype.trim
Trim(s) == TrimEnd(TrimStart(s))

(***************************************************************************)
(* Regular expressions.  An element is                                     *)
(*   [t |-> "rep", cls, lo, hi]  a greedy repetition cls{lo,hi}            *)
(*   [t |-> "any", lo]           a greedy repetition .{lo,}                *)
(*   [t |-> "opt", es]           an optional group (?: es )?               *)
(* Walk(es, s, paths) continues every path of paths (a path is the        *)
(* sequence of the positions reached so far, the last one being where the  *)
(* next element starts) through the elements es, and returns the paths in  *)
(* the order in which a backtracking engine tries them: the longest        *)
(* repetition first, an optional group before its absence.                 *)
(***************************************************************************)
Rep(cls, lo, hi) == [t |-> "rep", cls |-> cls, lo |-> lo, hi |-> hi]
One(cls) == Rep(cls, 1, 1)
\* hi = -1: no upper limit
Star(cls) == Rep(cls, 0, -1)
Plus(cls) == Rep(cls, 1, -1)
Maybe(cls) == Rep(cls, 0, 1)
AnyStar == [t |-> "any", lo |-> 0]
Opt(es) == [t |-> "opt", es |-> es]

RECURSIVE RunLen(_, _, _)
\* The number of consecutive characters of cls in s from position i on.
RunLen(cls, s, i) ==
    IF i <= Len(s) /\ s[i] \in cls THEN 1 + RunLen(cls, s, i + 1) ELSE 0

Min2(a, b) == IF a <= b THEN a ELSE b
Max2(a, b) == IF a >= b THEN a ELSE b

\* <<i + hi, i + hi - 1, ..., i + lo>>
Descending(i, lo, hi) ==
    IF hi < lo THEN <<>> ELSE [k \in 1..(hi - lo + 1) |-> i + hi - (k - 1)]

Last(path) == path[Len(path)]

RECURSIVE Walk(_, _, _)
Walk(es, s, paths) ==
    IF es = <<>> \/ paths = <<>> THEN paths
    ELSE IF Len(paths) > 1
    THEN Walk(es, s, <<Head(paths)>>) \o Walk(es, s, Tail(paths))
    ELSE LET path == paths[1]
             p == Last(path)
             e == Head(es)
             run == RunLen(e.cls, s, p)
             inner == Walk(e.es, s, << <<p>> >>)
             ends == CASE e.t = "rep" ->
                            Descending(p, e.lo, IF e.hi < 0 THEN run ELSE Min2(e.hi, run))
                       [] e.t = "any" -> Descending(p, e.lo, Len(s) + 1 - p)
                       [] e.t = "opt" -> [k \in 1..Len(inner) |-> Last(inner[k])] \o <<p>>
         IN  Walk(Tail(es), s, [k \in 1..Len(ends) |-> Append(path, ends[k])])

\* s.match(/^es$/): whether it matches and, for the first match in backtracking
\* order, the position b[k] at which element k of the expression ends.
MatchAnchored(es, s) ==
    LET complete == SelectSeq(Walk(es, s, << <<1>> >>), LAMBDA path : Last(path) = Len(s) + 1)
    IN  IF complete = <<>> THEN [ok |-> FALSE, b |-> <<>>]
        ELSE [ok |-> TRUE, b |-> Tail(complete[1])]

\* The text matched by elements k1..k2 of the expression.
GroupSpan(m, s, k1, k2) ==
    SubSeq(s, (IF k1 = 1 THEN 1 ELSE m.b[k1 - 1]), m.b[k2] - 1)

Group(m, s, k) == GroupSpan(m, s, k, k)

\* /^es$/.test(s)
TestAnchored(es, s) == MatchAnchored(es, s).ok

\* /es/.test(s): a match of the unanchored expression somewhere in s.
TestSearch(es, s) == \E p \in 1..(Len(s) + 1) : Walk(es, s, << <<p>> >>) # <<>>

(***************************************************************************)
(* Numbers.  parseFloat reads an optional sign, digits and an optional     *)
(* fraction from the start of the text and ignores what follows; the       *)
(* result is NaN when no digit starts the text.                            *)
(***************************************************************************)
\* hundredths of an arc second in a degree
Unit == 3600 * 100
\* parseFloat keeps four decimals, each 1/10000 being Unit / 10000 units
FracDigits == 2 + 2

RECURSIVE Pow10(_)
Pow10(n) == IF n = 0 THEN 1 ELSE 10 * Pow10(n - 1)

RECURSIVE DigitsValue(_)
\* The integer a digit string denotes.
DigitsValue(ds) ==
    IF ds = <<>> THEN 0
    ELSE 10 * DigitsValue(SubSeq(ds, 1, Len(ds) - 1)) + DigitVal(ds[Len(ds)])

\* The fraction .ds as a multiple of 1/Unit (digits after FracDigits dropped).
FractionValue(ds) ==
    LET kept == SubSeq(ds, 1, Min2(Len(ds), FracDigits))
    IN  DigitsValue(kept) * Pow10(FracDigits - Len(kept)) * (Unit \div Pow10(FracDigits))

NaN == [nan |-> TRUE, v |-> 0]
Num(v) == [nan |-> FALSE, v |-> v]

\* the digits and fraction of body (the text after the sign), nInt digits
\* before the point
FloatMagnitude(body, nInt) ==
    DigitsValue(SubSeq(body, 1, nInt)) * Unit
      + (IF nInt < Len(body) /\ body[nInt + 1] = "."
         THEN FractionValue(SubSeq(body, nInt + 2, nInt + 1 + RunLen(Digits, body, nInt + 2)))
         ELSE 0)

SignedFloat(neg, body, nInt) ==
    IF nInt = 0 THEN NaN
    ELSE Num(IF neg THEN -FloatMagnitude(body, nInt) ELSE FloatMagnitude(body, nInt))

UnsignedPart(neg, s) ==
    SignedFloat(neg, (IF neg THEN Tail(s) ELSE s), RunLen(Digits, (IF neg THEN Tail(s) ELSE s), 1))

TrimmedFloat(s) == UnsignedPart(s # <<>> /\ Head(s) = "-", s)

\* parseFloat
ParseFloat(str) == TrimmedFloat(TrimStart(str))

(***************************************************************************)
(* Errors and results of DMSConverter.  A thrown Error is the record       *)
(* [ok |-> FALSE, error |-> [msg, num, txt]]: msg the fixed text of the    *)
(* message, num the number and txt the text interpolated into it.          *)
(***************************************************************************)
Err(msg, num, txt) == [msg |-> msg, num |-> num, txt |-> txt]
Throw(msg, num, txt) ==
    [ok |-> FALSE, error |-> Err(msg, num, txt), decimal |-> 0, direction |-> ""]
Return(decimal, direction) ==
    [ok |-> TRUE, error |-> Err("", 0, <<>>), decimal |-> decimal, direction |-> direction]

DMSParts(deg, min, sec, dir) == [deg |-> deg, min |-> min, sec |-> sec, dir |-> dir]

\* lines 45-50 of parseDMS: the signed decimal value
SignedDecimal(decimal, direction) ==
    Return(IF direction \in {"S", "W"} THEN -decimal ELSE decimal, direction)

\* CheckRanges with the checks of lines 35-43 in the reverse order
CheckRangesSecondsFirst(deg, minutes, seconds, direction) ==
    IF ~(0 <= seconds /\ seconds < 60 * Unit)
    THEN Throw("Seconds must be between 0 and 59, got", seconds, <<>>)
    ELSE IF ~(0 <= minutes /\ minutes < 60 * Unit)
    THEN Throw("Minutes must be between 0 and 59, got", minutes, <<>>)
    ELSE IF ~(0 <= deg /\ deg <= 180 * Unit)
    THEN Throw("Degrees must be between 0 and 180, got", deg, <<>>)
    ELSE SignedDecimal(deg + minutes \div 60 + seconds \div 3600, direction)

\* lines 34-50 of parseDMS: the range checks, in the order of the code
CheckRanges(deg, minutes, seconds, direction) ==
    IF ~(0 <= deg /\ deg <= 180 * Unit)
    THEN Throw("Degrees must be between 0 and 180, got", deg, <<>>)
    ELSE IF ~(0 <= minutes /\ minutes < 60 * Unit)
    THEN Throw("Minutes must be between 0 and 59, got", minutes, <<>>)
    ELSE IF ~(0 <= seconds /\ seconds < 60 * Unit)
    THEN Throw("Seconds must be between 0 and 59, got", seconds, <<>>)
    ELSE SignedDecimal(deg + minutes \div 60 + seconds \div 3600, direction)

\* parts.min ? parseFloat(parts.min) : 0.0
FloatOrZero(txt) == IF txt # <<>> THEN ParseFloat(txt).v ELSE 0

\* DMSConverter.parseDMS
parseDMS(parts) ==
    CheckRanges(ParseFloat(parts.deg).v, FloatOrZero(parts.min), FloatOrZero(parts.sec),
                UpperChar(parts.dir))

\* /^([NSEW])(\d{2,3})(\d{2})(\d{2}(?:\.\d+)?)$/i
CompactRegex ==
    << One(IgnoreCase(DirLetters)), Rep(Digits, 2, 3), Rep(Digits, 2, 2),
       Rep(Digits, 2, 2), Opt(<< One({"."}), Plus(Digits) >>) >>

CompactParts(match, s, dms) ==
    IF ~match.ok THEN Throw("Invalid compact DMS format:", 0, dms)
    ELSE parseDMS(DMSParts(Group(match, s, 2), Group(match, s, 3),
                           GroupSpan(match, s, 4, 5), UpperChar(Group(match, s, 1)[1])))

CompactMatch(s, dms) == CompactParts(MatchAnchored(CompactRegex, s), s, dms)

\* DMSConverter.compactDMSToDecimal
compactDMSToDecimal(dms) == CompactMatch(Trim(dms), dms)

\* (\d{1,2}(?:\.\d+)?)?
LooseSeconds == Opt(<< Rep(Digits, 1, 2), Opt(<< One({"."}), Plus(Digits) >>) >>)

\* /^\s*([NSEW])[\s°d]*(\d{1,3})[°d\s]*(\d{1,2})['m\s]*(\d{1,2}(?:\.\d+)?)?["s\s]*$/i
LooseStartRegex ==
    << Star(WhiteSpace), One(IgnoreCase(DirLetters)),
       Star(IgnoreCase(WhiteSpace \cup {DegSign, "d"})), Rep(Digits, 1, 3),
       Star(IgnoreCase({DegSign, "d"} \cup WhiteSpace)), Rep(Digits, 1, 2),
       Star(IgnoreCase({Apos, "m"} \cup WhiteSpace)), LooseSeconds,
       Star(IgnoreCase({DQuote, "s"} \cup WhiteSpace)) >>

\* /^[\s°d]*(\d{1,3})[°d\s]*(\d{1,2})['m\s]*(\d{1,2}(?:\.\d+)?)?["s\s]*([NSEW])\s*$/i
LooseEndRegex ==
    << Star(IgnoreCase(WhiteSpace \cup {DegSign, "d"})), Rep(Digits, 1, 3),
       Star(IgnoreCase({DegSign, "d"} \cup WhiteSpace)), Rep(Digits, 1, 2),
       Star(IgnoreCase({Apos, "m"} \cup WhiteSpace)), LooseSeconds,
       Star(IgnoreCase({DQuote, "s"} \cup WhiteSpace)), One(IgnoreCase(DirLetters)),
       Star(WhiteSpace) >>

\* match[k] || '0'
OrZero(txt) == IF txt = <<>> THEN <<"0">> ELSE txt

\* lines 87-112 of looseDMSToDecimal
LooseParts(startMatch, endMatch, dmsClean, dms) ==
    IF startMatch.ok
    THEN parseDMS(DMSParts(Group(startMatch, dmsClean, 4), Group(startMatch, dmsClean, 6),
                           OrZero(Group(startMatch, dmsClean, 8)),
                           UpperChar(Group(startMatch, dmsClean, 2)[1])))
    ELSE IF endMatch.ok
    THEN parseDMS(DMSParts(Group(endMatch, dmsClean, 2), Group(endMatch, dmsClean, 4),
                           OrZero(Group(endMatch, dmsClean, 6)),
                           UpperChar(Group(endMatch, dmsClean, 8)[1])))
    ELSE Throw("Invalid loose DMS format:", 0, dms)

LooseMatch(dmsClean, dms) ==
    LooseParts(MatchAnchored(LooseStartRegex, dmsClean),
               MatchAnchored(LooseEndRegex, dmsClean), dmsClean, dms)

\* DMSConverter.looseDMSToDecimal
looseDMSToDecimal(dms) == LooseMatch(ToUpper(Trim(dms)), dms)

\* the try/catch cascade of dmsToDecimal
FirstParsed(compact, loose, dms) ==
    IF compact.ok THEN compact
    ELSE IF loose.ok THEN loose
    ELSE Throw("Unrecognized DMS format:", 0, dms)

TrimmedDmsToDecimal(trimmedDms, dms) ==
    FirstParsed(compactDMSToDecimal(trimmedDms), looseDMSToDecimal(trimmedDms), dms)

\* DMSConverter.dmsToDecimal
dmsToDecimal(dms) == TrimmedDmsToDecimal(Trim(dms), dms)

\* the position of the first character of sep in s, 0 when there is none
RECURSIVE FirstOf(_, _, _)
FirstOf(sep, s, k) ==
    IF k > Len(s) THEN 0 ELSE IF s[k] \in sep THEN k ELSE FirstOf(sep, s, k + 1)

RECURSIVE SplitAt(_, _, _)
RECURSIVE SplitOn(_, _)
\* String.prototype.split on runs of the separator class: the pieces between
\* the runs (the first or last piece is empty when s starts or ends with one).
SplitOn(sep, s) == SplitAt(sep, s, FirstOf(sep, s, 1))

SplitAt(sep, s, first) ==
    IF first = 0 THEN <<s>>
    ELSE <<SubSeq(s, 1, first - 1)>>
           \o SplitOn(sep, SubSeq(s, first + RunLen(sep, s, first), Len(s)))

RECURSIVE JoinWith(_, _)
\* Array.prototype.join
JoinWith(c, parts) ==
    IF parts = <<>> THEN <<>>
    ELSE IF Len(parts) = 1 THEN parts[1]
    ELSE parts[1] \o <<c>> \o JoinWith(c, Tail(parts))

NonEmptyParts(parts) == SelectSeq(parts, LAMBDA p : Len(p) > 0)

ThrowPair(msg, num, txt) ==
    [ok |-> FALSE, error |-> Err(msg, num, txt), latitude |-> 0, longitude |-> 0]
ReturnPair(lat, lon) ==
    [ok |-> TRUE, error |-> Err("", 0, <<>>), latitude |-> lat, longitude |-> lon]

\* CheckPair without the direction checks of lines 159-164
CheckPairAnyDirection(latResult, lonResult) ==
    IF ~latResult.ok THEN ThrowPair(latResult.error.msg, 0, latResult.error.txt)
    ELSE IF ~lonResult.ok THEN ThrowPair(lonResult.error.msg, 0, lonResult.error.txt)
    ELSE IF ~(latResult.decimal >= -90 * Unit /\ latResult.decimal <= 90 * Unit)
    THEN ThrowPair("Latitude must be between -90 and 90 degrees, got", latResult.decimal, <<>>)
    ELSE IF ~(lonResult.decimal >= -180 * Unit /\ lonResult.decimal <= 180 * Unit)
    THEN ThrowPair("Longitude must be between -180 and 180 degrees, got", lonResult.decimal, <<>>)
    ELSE ReturnPair(latResult.decimal, lonResult.decimal)

\* lines 159-177 of parseCoordinatePair
CheckPair(latResult, lonResult) ==
    IF ~latResult.ok THEN ThrowPair(latResult.error.msg, 0, latResult.error.txt)
    ELSE IF ~lonResult.ok THEN ThrowPair(lonResult.error.msg, 0, lonResult.error.txt)
    ELSE IF latResult.direction \notin {"N", "S"}
    THEN ThrowPair("Invalid latitude direction: Must be N or S.", 0, <<latResult.direction>>)
    ELSE IF lonResult.direction \notin {"E", "W"}
    THEN ThrowPair("Invalid longitude direction: Must be E or W.", 0, <<lonResult.direction>>)
    ELSE IF ~(latResult.decimal >= -90 * Unit /\ latResult.decimal <= 90 * Unit)
    THEN ThrowPair("Latitude must be between -90 and 90 degrees, got", latResult.decimal, <<>>)
    ELSE IF ~(lonResult.decimal >= -180 * Unit /\ lonResult.decimal <= 180 * Unit)
    THEN ThrowPair("Longitude must be between -180 and 180 degrees, got", lonResult.decimal, <<>>)
    ELSE ReturnPair(latResult.decimal, lonResult.decimal)

\* SplitPair with the longer half given to the latitude
SplitPairCeiling(parts, midPoint) ==
    CheckPair(dmsToDecimal(JoinWith(" ", SubSeq(parts, 1, Len(parts) - midPoint))),
              dmsToDecimal(JoinWith(" ", SubSeq(parts, Len(parts) - midPoint + 1, Len(parts)))))

\* lines 148-157 of parseCoordinatePair: the split at the midpoint
SplitPair(parts, midPoint) ==
    CheckPair(dmsToDecimal(JoinWith(" ", SubSeq(parts, 1, midPoint))),
              dmsToDecimal(JoinWith(" ", SubSeq(parts, midPoint + 1, Len(parts)))))

\* PairOfParts without the checks of lines 136-145
PairOfPartsUnchecked(dmsInput, parts) == SplitPair(parts, Len(parts) \div 2)

\* lines 136-148 of parseCoordinatePair
PairOfParts(dmsInput, parts) ==
    IF Trim(dmsInput) = <<>> THEN ThrowPair("Input cannot be empty.", 0, <<>>)
    ELSE IF Len(parts) < 2
    THEN ThrowPair("Input must include both latitude and longitude.", 0, <<>>)
    ELSE SplitPair(parts, Len(parts) \div 2)

\* DMSConverter.parseCoordinatePair
parseCoordinatePair(dmsInput) ==
    PairOfParts(dmsInput, NonEmptyParts(SplitOn(WhiteSpace \cup {","}, dmsInput)))

(***************************************************************************)
(* CoordinateUtils.detectFormat                                            *)
(***************************************************************************)
\* /[NSEW].*[°'"]/
DmsPattern1 == << One(DirLetters), AnyStar, One({DegSign, Apos, DQuote}) >>
\* /\d+[°]\d+[']\d+["]/
DmsPattern2 ==
    << Plus(Digits), One({DegSign}), Plus(Digits), One({Apos}), Plus(Digits), One({DQuote}) >>
\* /[NSEW]\d+\s+\d+\s+\d+/
DmsPattern3 ==
    << One(DirLetters), Plus(Digits), Plus(WhiteSpace), Plus(Digits), Plus(WhiteSpace),
       Plus(Digits) >>

ZoneLetters ==
    { "C", "D", "E", "F", "G", "H", "J", "K", "L", "M", "N", "P", "Q", "R", "S", "T",
      "U", "V", "W", "X" }
SquareLetters ==
    { "A", "B", "C", "D", "E", "F", "G", "H", "J", "K", "L", "M", "N", "P", "Q", "R",
      "S", "T", "U", "V", "W", "X", "Y", "Z" }

\* /^\d{1,2}[CDEFGHJKLMNPQRSTUVWX]\s+\d+\.?\d*\s+\d+\.?\d*$/
UtmPattern ==
    << Rep(Digits, 1, 2), One(ZoneLetters), Plus(WhiteSpace),
       Plus(Digits), Maybe({"."}), Star(Digits), Plus(WhiteSpace),
       Plus(Digits), Maybe({"."}), Star(Digits) >>
\* /^\d{1,2}[CDEFGHJKLMNPQRSTUVWX][ABCDEFGHJKLMNPQRSTUVWXYZ]{2}\d{2,10}$/
MgrsPattern ==
    << Rep(Digits, 1, 2), One(ZoneLetters), Rep(SquareLetters, 2, 2), Rep(Digits, 2, 10) >>
\* /^-?\d+\.?\d*\s*,?\s*-?\d+\.?\d*$/
DdPattern ==
    << Maybe({"-"}), Plus(Digits), Maybe({"."}), Star(Digits), Star(WhiteSpace),
       Maybe({","}), Star(WhiteSpace), Maybe({"-"}), Plus(Digits), Maybe({"."}),
       Star(Digits) >>

DMS == "dms"
DD == "decimal"
UTM == "utm"
MGRS == "mgrs"
UNKNOWN == "unknown"
CoordinateFormat == {DMS, DD, UTM, MGRS, UNKNOWN}

\* ClassifyCleaned without the final return of line 101
ClassifyCleanedNoFallback(cleaned) ==
    IF \E pattern \in {DmsPattern1, DmsPattern2, DmsPattern3} : TestSearch(pattern, cleaned)
    THEN DMS
    ELSE IF TestAnchored(UtmPattern, cleaned) THEN UTM
    ELSE IF TestAnchored(MgrsPattern, cleaned) THEN MGRS
    ELSE IF TestAnchored(DdPattern, cleaned) THEN DD
    ELSE "undefined"

\* lines 85-101 of detectFormat: the tests in their order
ClassifyCleaned(cleaned) ==
    IF \E pattern \in {DmsPattern1, DmsPattern2, DmsPattern3} : TestSearch(pattern, cleaned)
    THEN DMS
    ELSE IF TestAnchored(UtmPattern, cleaned) THEN UTM
    ELSE IF TestAnchored(MgrsPattern, cleaned) THEN MGRS
    ELSE IF TestAnchored(DdPattern, cleaned) THEN DD
    ELSE UNKNOWN

detectFormat(input) == ClassifyCleaned(ToUpper(Trim(input)))

(***************************************************************************)
(* CoordinateUtils.decimalToDMS.  The seconds are a multiple of 1/100, so  *)
(* toFixed(precision) rounds (half up) only when precision < 2; the number *)
(* is then printed as JavaScript prints a number: no trailing zeros.       *)
(***************************************************************************)
RECURSIVE NatToString(_)
NatToString(n) ==
    IF n < 10 THEN <<DigitChar(n)>> ELSE NatToString(n \div 10) \o <<DigitChar(n % 10)>>

RECURSIVE StripZeros(_)
StripZeros(ds) ==
    IF ds # <<>> /\ ds[Len(ds)] = "0" THEN StripZeros(SubSeq(ds, 1, Len(ds) - 1)) ELSE ds

\* n as a string of exactly w digits (leading zeros)
RECURSIVE PadDigits(_, _)
PadDigits(n, w) == IF w = 0 THEN <<>> ELSE PadDigits(n \div 10, w - 1) \o <<DigitChar(n % 10)>>

\* parseFloat(x.toFixed(precision)) for x = hundredths / 100 >= 0, as hundredths
RoundHundredths(hundredths, precision) ==
    IF precision >= 2 THEN hundredths
    ELSE ((2 * hundredths + Pow10(2 - precision)) \div (2 * Pow10(2 - precision)))
           * Pow10(2 - precision)

FractionString(frac) == IF frac = <<>> THEN <<>> ELSE <<".">> \o frac

\* `${x}` for x = hundredths / 100 >= 0
HundredthsToString(hundredths) ==
    NatToString(hundredths \div 100) \o FractionString(StripZeros(PadDigits(hundredths % 100, 2)))

Abs(x) == IF x < 0 THEN -x ELSE x

\* lines 115-119 of formatDMS
DMSString(direction, degrees, minutes, seconds) ==
    <<direction>> \o NatToString(degrees) \o <<DegSign>> \o NatToString(minutes)
      \o <<Apos>> \o HundredthsToString(seconds) \o <<DQuote>>

\* lines 112-113 of formatDMS; minutesFloat is in units of 1/Unit minute
MinutesAndSeconds(direction, degrees, minutesFloat, precision) ==
    DMSString(direction, degrees, minutesFloat \div Unit,
              RoundHundredths(((minutesFloat % Unit) * 60) \div (Unit \div 100), precision))

\* lines 109-111 of formatDMS
DegreesAndMinutes(direction, absCoord, precision) ==
    MinutesAndSeconds(direction, absCoord \div Unit, (absCoord % Unit) * 60, precision)

formatDMS(coord, isLatitude, precision) ==
    DegreesAndMinutes(IF coord >= 0 THEN (IF isLatitude THEN "N" ELSE "E")
                      ELSE (IF isLatitude THEN "S" ELSE "W"),
                      Abs(coord), precision)

decimalToDMS(latitude, longitude, precision) ==
    formatDMS(latitude, TRUE, precision) \o <<" ">> \o formatDMS(longitude, FALSE, precision)

(***************************************************************************)
(* CoordinateUtils.toUTM.  Only zone and hemisphere are modelled: easting  *)
(* and northing (the series of lines 134-164) are outputs that nothing     *)
(* else in the program reads back.                                         *)
(***************************************************************************)
toUTM(latitude, longitude) ==
    [ zone |-> (longitude + 180 * Unit) \div (6 * Unit) + 1,
      hemisphere |-> IF latitude >= 0 THEN "N" ELSE "S" ]

\* CoordinateUtils.validateCoordinate
validateCoordinate(latitude, longitude) ==
    /\ latitude >= -90 * Unit /\ latitude <= 90 * Unit
    /\ longitude >= -180 * Unit /\ longitude <= 180 * Unit

(***************************************************************************)
(* CoordinateUtils.calculateDistance in fixed point.  Angles in radians,   *)
(* sines, cosines and the haversine terms are integers in units of 1e-6    *)
(* (Micro); the distance is in whole metres, bearings in units of 1e-6     *)
(* degree, the returned bearings in hundredths of a degree.  Products are  *)
(* commutative and every function of a sign is odd or even as in IEEE      *)
(* arithmetic, so an equality of two floating-point results that follows   *)
(* from these symmetries is an equality here; Math.sin, Math.cos and       *)
(* Math.atan2 are their series after range reduction.  The points are kept *)
(* away from antipodes, where 1 - a can turn negative.                     *)
(***************************************************************************)
Micro == 1000 * 1000
EARTH_RADIUS == 6378137
\* Math.PI, in units of 1e-6
PI == 3141593
HalfPi == PI \div 2
QuarterPi == PI \div 4

Sgn(x) == IF x < 0 THEN -1 ELSE IF x > 0 THEN 1 ELSE 0

\* a * b / 1e6 for a, b >= 0, by thousands so that no product overflows
MulMag(a, b) ==
    (a \div 1000) * (b \div 1000)
      + ((a \div 1000) * (b % 1000) + (a % 1000) * (b \div 1000)
           + ((a % 1000) * (b % 1000)) \div 1000) \div 1000

\* the product of two numbers in units of 1e-6
Mul6(a, b) == Sgn(a) * Sgn(b) * MulMag(Abs(a), Abs(b))

\* the second three digits of a / b
DivRest(rest, b) == (rest * 1000) \div b

\* a / b in units of 1e-6, for 0 <= a <= b
DivMag(a, b) == ((a * 1000) \div b) * 1000 + DivRest((a * 1000) % b, b)

\* x * Math.PI / 180 for x in degrees * Unit: radians in units of 1e-6
DegToRad(x) == Sgn(x) * (MulMag(Abs(x), 48481) + MulMag(Abs(x), 368) \div 1000)

\* x * 180 / Math.PI: degrees in units of 1e-6
RadToDeg(x) == Mul6(x, 57295780)

RECURSIVE Series(_, _, _)
\* term - term * x2 / ((k+1)(k+2)) + ...: the alternating series of sin (k = 1)
\* and cos (k = 0), term = x^k / k!
Series(term, x2, k) ==
    IF term = 0 THEN 0
    ELSE term - Series(MulMag(term, x2) \div ((k + 1) * (k + 2)), x2, k + 2)

SinSeries(m) == Series(m, MulMag(m, m), 1)
CosSeries(m) == Series(Micro, MulMag(m, m), 0)

RECURSIVE SinMag(_)
\* Math.sin of m in [0, 2 pi]
SinMag(m) ==
    IF m > PI THEN -SinMag(m - PI)
    ELSE IF m > HalfPi THEN SinSeries(PI - m)
    ELSE SinSeries(m)

RECURSIVE CosMag(_)
\* Math.cos of m in [0, 2 pi]
CosMag(m) ==
    IF m > PI THEN -CosMag(m - PI)
    ELSE IF m > HalfPi THEN -CosSeries(PI - m)
    ELSE CosSeries(m)

\* Math.sin
Sin(x) == Sgn(x) * SinMag(Abs(x))
\* Math.cos
Cos(x) == CosMag(Abs(x))

RECURSIVE SqrtSearch(_, _, _)
\* the largest s in lo..hi with s * s <= a
SqrtSearch(a, lo, hi) ==
    IF lo >= hi THEN lo
    ELSE IF MulMag((lo + hi + 1) \div 2, (lo + hi + 1) \div 2) <= a
    THEN SqrtSearch(a, (lo + hi + 1) \div 2, hi)
    ELSE SqrtSearch(a, lo, (lo + hi + 1) \div 2 - 1)

\* Math.sqrt of a in [0, 1]
Sqrt(a) == SqrtSearch(a, 0, Micro)

RECURSIVE AtanTerms(_, _, _)
\* z^k / k - z^(k+2) / (k+2) + ...
AtanTerms(power, z2, k) ==
    IF power = 0 THEN 0
    ELSE power \div k - AtanTerms(MulMag(power, z2), z2, k + 2)

AtanSeries(z) == AtanTerms(z, MulMag(z, z), 1)

\* atan z for z in [0, 1]: atan z = pi/4 - atan((1 - z) / (1 + z)) above tan(pi/8)
AtanUnit(z) ==
    IF z > 414214 THEN QuarterPi - AtanSeries(DivMag(Micro - z, Micro + z))
    ELSE AtanSeries(z)

\* Math.atan2(y, x) for y, x >= 0
AtanPos(y, x) ==
    IF y = 0 THEN 0
    ELSE IF y <= x THEN AtanUnit(DivMag(y, x))
    ELSE HalfPi - AtanUnit(DivMag(x, y))

\* Math.atan2
Atan2(y, x) ==
    (IF y < 0 THEN -1 ELSE 1)
      * (IF x >= 0 THEN AtanPos(Abs(y), x) ELSE PI - AtanPos(Abs(y), -x))

\* x / 2
Half(x) == Sgn(x) * (Abs(x) \div 2)

\* lines 184-186: the haversine term a
HaversineOf(sinLat, cosCos, sinLon) ==
    Mul6(sinLat, sinLat) + Mul6(Mul6(cosCos, sinLon), sinLon)

\* Haversine with the cosine of the first latitude taken twice
HaversineOneLatitude(lat1Rad, lat2Rad, deltaLatRad, deltaLonRad) ==
    HaversineOf(Sin(Half(deltaLatRad)), Mul6(Cos(lat1Rad), Cos(lat1Rad)),
                Sin(Half(deltaLonRad)))

Haversine(lat1Rad, lat2Rad, deltaLatRad, deltaLonRad) ==
    HaversineOf(Sin(Half(deltaLatRad)), Mul6(Cos(lat1Rad), Cos(lat2Rad)),
                Sin(Half(deltaLonRad)))

\* lines 187-188: c and the distance, in metres
DistanceOf(a) == Mul6(EARTH_RADIUS, 2 * Atan2(Sqrt(a), Sqrt(Micro - a)))

\* lines 191-194: the forward bearing before rounding, in units of 1e-6 degree
Bearing(lat1Rad, lat2Rad, deltaLonRad) ==
    (RadToDeg(Atan2(Mul6(Sin(deltaLonRad), Cos(lat2Rad)),
                    Mul6(Cos(lat1Rad), Sin(lat2Rad))
                      - Mul6(Mul6(Sin(lat1Rad), Cos(lat2Rad)), Cos(deltaLonRad))))
       + 360 * Micro) % (360 * Micro)

\* Math.round(b * 100) / 100 for b >= 0 in units of 1e-6 degree: hundredths
RoundHundredthsOfDegree(b) == (b + 5000) \div 10000

\* lines 197-203: the reverse bearing and the rounded result
DistanceResult(distance, bearing) ==
    [ distance |-> distance,
      bearing |-> RoundHundredthsOfDegree(bearing),
      reverseBearing |-> RoundHundredthsOfDegree((bearing + 180 * Micro) % (360 * Micro)) ]

DistanceInRadians(lat1Rad, lat2Rad, deltaLatRad, deltaLonRad) ==
    DistanceResult(DistanceOf(Haversine(lat1Rad, lat2Rad, deltaLatRad, deltaLonRad)),
                   Bearing(lat1Rad, lat2Rad, deltaLonRad))

\* CoordinateUtils.calculateDistance
calculateDistance(coord1, coord2) ==
    DistanceInRadians(DegToRad(coord1.latitude), DegToRad(coord2.latitude),
                      DegToRad(coord2.latitude - coord1.latitude),
                      DegToRad(coord2.longitude - coord1.longitude))

(***************************************************************************)
(* The single-item operations of the batch.  A ConversionResult is the     *)
(* record [success, data, error, format]; data is a record tagged by kind. *)
(***************************************************************************)
NoData == [kind |-> "none"]
NoError == Err("", 0, <<>>)
Failure(error) == [success |-> FALSE, data |-> NoData, error |-> error, format |-> "none"]
Success(data, format) == [success |-> TRUE, data |-> data, error |-> NoError, format |-> format]

ValidateFormat(format) ==
    IF format = UNKNOWN THEN Failure(Err("Unknown coordinate format", 0, <<>>))
    ELSE Success([kind |-> "valid", valid |-> TRUE, format |-> format], "none")

\* CoordinateUtils.validateInput
validateInput(input) == ValidateFormat(detectFormat(input))

\* input.split(/[,\s]+/)
DecimalParts(input) == SplitOn(WhiteSpace \cup {","}, input)

\* .map(s => parseFloat(s.trim()))
MapParseFloat(parts) == [k \in 1..Len(parts) |-> ParseFloat(Trim(parts[k]))]

\* an exception that escapes an operation in the place of an outcome
Raised(error) == [success |-> FALSE, data |-> NoData, error |-> error, format |-> "raised"]

\* ConvertDMS outside the try of lines 290-323
ConvertDMSUncaught(result) ==
    IF result.ok
    THEN Success([kind |-> "coord", latitude |-> result.latitude,
                  longitude |-> result.longitude], DMS)
    ELSE Raised(result.error)

\* lines 297-302: the DMS branch of convertCoordinate
ConvertDMS(result) ==
    IF result.ok
    THEN Success([kind |-> "coord", latitude |-> result.latitude,
                  longitude |-> result.longitude], DMS)
    ELSE Failure(result.error)

\* lines 305-313: the decimal branch of convertCoordinate
ConvertDD(coords) ==
    IF Len(coords) # 2 \/ \E k \in 1..Len(coords) : coords[k].nan
    THEN Failure(Err("Invalid decimal degree format", 0, <<>>))
    ELSE Success([kind |-> "coord", latitude |-> coords[1].v, longitude |-> coords[2].v], DD)

\* lines 293-323 of convertCoordinate
ConvertAs(format, input) ==
    CASE format = DMS -> ConvertDMS(parseCoordinatePair(input))
      [] format = DD -> ConvertDD(MapParseFloat(DecimalParts(input)))
      [] OTHER -> Failure(Err("Conversion from not yet implemented", 0, <<format>>))

\* CoordinateUtils.convertCoordinate
convertCoordinate(input) == ConvertAs(detectFormat(input), input)

UTMOfResult(coordResult) ==
    IF ~coordResult.success THEN coordResult
    ELSE Success([kind |-> "utm"] @@ toUTM(coordResult.data.latitude,
                                            coordResult.data.longitude), UTM)

\* CoordinateUtils.convertToUTM
convertToUTM(input) == UTMOfResult(convertCoordinate(input))

DMSOfResult(coordResult) ==
    IF ~coordResult.success THEN coordResult
    ELSE Success([kind |-> "dms",
                  text |-> decimalToDMS(coordResult.data.latitude,
                                        coordResult.data.longitude, 2)], DMS)

\* CoordinateUtils.convertToDMS
convertToDMS(input) == DMSOfResult(convertCoordinate(input))

Operations == {"validate", "convert", "toUTM", "toDMS"}

\* the switch of batchProcess
RunOperation(operation, input) ==
    CASE operation = "validate" -> validateInput(input)
      [] operation = "convert" -> convertCoordinate(input)
      [] operation = "toUTM" -> convertToUTM(input)
      [] operation = "toDMS" -> convertToDMS(input)

(***************************************************************************)
(* Input lines of the batches                                              *)
(***************************************************************************)
\* a whitespace-only line
LineBlank ==
    << " ", " ", " " >>
\* N45°30'15" W122°40'30"
LineSymbols ==
    << "N", "4", "5", "°", "3", "0", "'", "1", "5", "\"", " ", "W", "1", "2",
       "2", "°", "4", "0", "'", "3", "0", "\"" >>
\* N4530.25 W12240.5
LineCompact ==
    << "N", "4", "5", "3", "0", ".", "2", "5", " ", "W", "1", "2", "2", "4",
       "0", ".", "5" >>
\* 45°30'15"N 122°40'30"W
LineTrailing ==
    << "4", "5", "°", "3", "0", "'", "1", "5", "\"", "N", " ", "1", "2", "2",
       "°", "4", "0", "'", "3", "0", "\"", "W" >>
\* N45 30 15 W122 40 30
LineSpaces ==
    << "N", "4", "5", " ", "3", "0", " ", "1", "5", " ", "W", "1", "2", "2",
       " ", "4", "0", " ", "3", "0" >>
\* 45.5042, -122.6751
LineDecimal ==
    << "4", "5", ".", "5", "0", "4", "2", ",", " ", "-", "1", "2", "2", ".",
       "6", "7", "5", "1" >>
\* bogus
LineBogus ==
    << "b", "o", "g", "u", "s" >>
\* 95°00'00"N 10°00'00"E
LineLat95 ==
    << "9", "5", "°", "0", "0", "'", "0", "0", "\"", "N", " ", "1", "0", "°",
       "0", "0", "'", "0", "0", "\"", "E" >>
\* 95, 10
LineDecimal95 ==
    << "9", "5", ",", " ", "1", "0" >>
\* 18T 583960 4507523
LineUtm ==
    << "1", "8", "T", " ", "5", "8", "3", "9", "6", "0", " ", "4", "5", "0",
       "7", "5", "2", "3" >>

TestLines ==
    << LineBlank, LineSymbols, LineCompact, LineTrailing, LineSpaces, LineDecimal,
       LineBogus, LineLat95, LineDecimal95, LineUtm >>

(***************************************************************************)
(* CoordinateUtils.batchProcess as a state machine.                        *)
(*   inputs, operation, onProgress  the arguments ("absent" or "given");   *)
(*   i, results                     the loop counter and the result list;  *)
(*   progress                       the values passed to onProgress, each  *)
(*                                  ((i + 1) / total) * 100 as a fraction; *)
(*   yields                         the setTimeout(0) awaits taken;        *)
(*   pc                             "loop" at the loop test, "yield" while *)
(*                                  suspended in the await, "done" after   *)
(*                                  the promise has resolved with results. *)
(* A given callback may return or throw at every call.                     *)
(***************************************************************************)
MaxBatch == 2

VARIABLES inputs, operation, onProgress, i, results, progress, yields, pc

batchVars == << inputs, operation, onProgress, i, results, progress, yields, pc >>

(***************************************************************************)
(* The formatter and DMSConverter applied to one input.                    *)
(*   source   what is drawn: a coordinate and a precision to format and    *)
(*            parse back, a single DMS token, or the text of a pair;       *)
(*   text     the text handed to the parser;                               *)
(*   token    the result of dmsToDecimal, parsed of parseCoordinatePair;   *)
(*   dpc      "start", "formatted", "parsed".                              *)
(***************************************************************************)
VARIABLES source, text, token, parsed, dpc

(***************************************************************************)
(*   written      the latitude and the longitude text a pair was written   *)
(*                from, when the pair is drawn as two halves;              *)
(*   format       the result of detectFormat on the text;                  *)
(*   converted    the result of convertCoordinate on the text;             *)
(*   parts        the DMSParts drawn for parseDMS, partsResult its result. *)
(***************************************************************************)
VARIABLES written, format, converted, parts, partsResult

dmsVars ==
    << source, text, token, parsed, dpc, written, format, converted, parts, partsResult >>

(***************************************************************************)
(* The calculator's functions applied to two points: calculateDistance     *)
(* from point 1 to point 2 and with the points exchanged, toUTM of point 1.*)
(***************************************************************************)
VARIABLES coord1, coord2, distanceResult, swappedResult, utmResult

geoVars == << coord1, coord2, distanceResult, swappedResult, utmResult >>

coreVars == << batchVars, dmsVars, geoVars >>

(***************************************************************************)
(* The exporters applied to a list of items.                               *)
(*   exportData   the items handed to exportData;                          *)
(*   kml          the placemarks of toKml, geoJson the features of         *)
(*                toGeoJson, in the order of the output.                   *)
(***************************************************************************)
VARIABLES exportData, kml, geoJson

exportVars == << exportData, kml, geoJson >>

(***************************************************************************)
(* The state of the CoordinateCalculator component.                        *)
(*   point1, point2   the two input fields;                                *)
(*   calcResult       state.result, NoDistance for null;                   *)
(*   calcError        state.error;                                         *)
(*   isCalculating    state.isCalculating;                                 *)
(*   timers           the calculations suspended in the delay of line 67,  *)
(*                    in the order their timers fire, each with its two    *)
(*                    parsed points;                                       *)
(*   clears           the number of calls of clear so far, and in a timer  *)
(*                    and in resultOf the value of clears when the         *)
(*                    calculation was started (history, not program state).*)
(***************************************************************************)
VARIABLES point1, point2, calcResult, calcError, isCalculating, timers, clears, resultOf

calcVars ==
    << point1, point2, calcResult, calcError, isCalculating, timers, clears, resultOf >>

(***************************************************************************)
(* The state of the main screen (App).                                     *)
(*   appInput, appResult, isError, detectedFormat, reverseMode, isLoading  *)
(*                 the fields of ConversionState; the precision stays at   *)
(*                 its initial value and the status text is left out;      *)
(*   history       the conversion history, newest entry first;             *)
(*   conversions   the calls of performConversion suspended in the delay   *)
(*                 of line 207, in the order their timers fire, each with  *)
(*                 the state its closure captured;                         *)
(*   nextId        the id of the next history entry (Date.now(), as the    *)
(*                 number of the conversion);                              *)
(*   resets        the number of calls of clearFields and toggleReverseMode*)
(*                 so far, recorded in each suspended call when it starts, *)
(*                 and started the number of calls of performConversion    *)
(*                 that reached the delay (history, not program state).    *)
(***************************************************************************)
VARIABLES appInput, appResult, isError, detectedFormat, reverseMode, isLoading,
          history, conversions, nextId, resets, started

appVars ==
    << appInput, appResult, isError, detectedFormat, reverseMode, isLoading,
       history, conversions, nextId, resets, started >>

(***************************************************************************)
(* The state of the BatchProcessor component around a run of batchProcess. *)
(*   stateInputs     state.inputs, the non-blank lines of the text area;   *)
(*   stateOperation  state.operation;                                      *)
(*   stateResults    state.results;                                        *)
(*   isProcessing    state.isProcessing;                                   *)
(*   stateProgress   state.progress, a fraction as in progress.            *)
(***************************************************************************)
VARIABLES stateInputs, stateOperation, stateResults, isProcessing, stateProgress

procVars == << stateInputs, stateOperation, stateResults, isProcessing, stateProgress >>

(***************************************************************************)
(* The state of one call of processInChunks.                               *)
(*   chunkData, chunkSize, chunkCallback  the arguments;                   *)
(*   ci            the loop index i;                                       *)
(*   passed        the chunks handed to the processor so far;              *)
(*   chunkResults  the local results;                                      *)
(*   lastProgress  the value of the last onProgress call;                  *)
(*   cpc           "idle", "loop", "processing", "timer" or "returned".    *)
(***************************************************************************)
VARIABLES chunkData, chunkSize, chunkCallback, ci, passed, chunkResults, lastProgress, cpc

chunkVars == << chunkData, chunkSize, chunkCallback, ci, passed, chunkResults, lastProgress, cpc >>

uiVars == << exportVars, calcVars, appVars, procVars, chunkVars >>

\* the variables outside each component
outsideExport == << coreVars, calcVars, appVars, procVars, chunkVars >>
outsideCalc == << coreVars, exportVars, appVars, procVars, chunkVars >>
outsideApp == << coreVars, exportVars, calcVars, procVars, chunkVars >>
outsideProc == << dmsVars, geoVars, exportVars, calcVars, appVars, chunkVars >>
outsideChunks == << coreVars, exportVars, calcVars, appVars, procVars >>

vars == << coreVars, uiVars >>

RECURSIVE SeqsUpTo(_, _)
\* the sequences over S of length at most n
SeqsUpTo(S, n) ==
    IF n = 0 THEN {<<>>}
    ELSE LET shorter == SeqsUpTo(S, n - 1)
         IN  shorter \cup {Append(q, x) : q \in {r \in shorter : Len(r) = n - 1}, x \in S}

Range(f) == {f[k] : k \in DOMAIN f}

CallbackError == Err("callback error", 0, <<>>)

NoSource == [kind |-> "none", latitude |-> 0, longitude |-> 0, precision |-> 0, text |-> <<>>]
NoToken == [kind |-> "none"]
NoPair == [kind |-> "none"]
NoCoordinate == [kind |-> "none"]
NoDistance == [kind |-> "none"]
NoUTM == [kind |-> "none"]

BatchIdle ==
    /\ inputs = <<>> /\ operation = "validate" /\ onProgress = "absent"
    /\ i = 0 /\ results = <<>> /\ progress = <<>> /\ yields = 0 /\ pc = "idle"

NoWritten == [kind |-> "none"]
NoFormat == "none"
NoConversion == [kind |-> "none"]
NoParts == [kind |-> "none"]

DmsIdle ==
    /\ source = NoSource /\ text = <<>> /\ token = NoToken /\ parsed = NoPair
    /\ dpc = "idle"
    /\ written = NoWritten /\ format = NoFormat /\ converted = NoConversion
    /\ parts = NoParts /\ partsResult = NoToken

GeoIdle ==
    /\ coord1 = NoCoordinate /\ coord2 = NoCoordinate
    /\ distanceResult = NoDistance /\ swappedResult = NoDistance /\ utmResult = NoUTM

NoExport == [done |-> FALSE, out |-> <<>>]

ExportIdle == exportData = <<>> /\ kml = NoExport /\ geoJson = NoExport

CalcIdle ==
    /\ point1 = <<>> /\ point2 = <<>> /\ calcResult = NoDistance /\ calcError = ""
    /\ isCalculating = FALSE /\ timers = <<>> /\ clears = 0 /\ resultOf = 0

\* state.result === ''
NoResult == [kind |-> "empty"]

\* lines 174-185: the initial state of App
AppIdle ==
    /\ appInput = <<>> /\ appResult = NoResult /\ isError = FALSE
    /\ detectedFormat = UNKNOWN /\ reverseMode = FALSE /\ isLoading = FALSE
    /\ history = <<>> /\ conversions = <<>> /\ nextId = 1 /\ resets = 0 /\ started = 0

Percent(n) == [num |-> n, den |-> 1]

\* lines 520-527: the initial state of BatchProcessor
ProcIdle ==
    /\ stateInputs = <<>> /\ stateOperation = "convert" /\ stateResults = <<>>
    /\ isProcessing = FALSE /\ stateProgress = Percent(0)

NoProgress == [kind |-> "none"]

ChunkIdle ==
    /\ chunkData = <<>> /\ chunkSize = 1 /\ chunkCallback = "absent"
    /\ ci = 0 /\ passed = <<>> /\ chunkResults = <<>>
    /\ lastProgress = NoProgress /\ cpc = "idle"

UiIdle == ExportIdle /\ CalcIdle /\ AppIdle /\ ProcIdle /\ ChunkIdle

Init ==
    /\ inputs \in SeqsUpTo(Range(TestLines), MaxBatch)
    /\ operation \in Operations
    /\ onProgress \in {"absent", "given"}
    /\ i = 0
    /\ results = <<>>
    /\ progress = <<>>
    /\ yields = 0
    /\ pc = "loop"
    /\ DmsIdle
    /\ GeoIdle
    /\ UiIdle

\* EmptyLine with break in the place of continue
EmptyLineAborts ==
    /\ pc = "loop" /\ i < Len(inputs)
    /\ Trim(inputs[i + 1]) = <<>>
    /\ results' = Append(results, Failure(Err("Empty input", 0, <<>>)))
    /\ i' = i + 1
    /\ pc' = "done"
    /\ UNCHANGED << inputs, operation, onProgress, progress, yields >>
    /\ UNCHANGED << dmsVars, geoVars, uiVars >>

\* line 260: the loop yields after the items whose index is a multiple of 10
YieldEvery == 10

\* lines 226-230: an empty line is recorded and the loop continues
EmptyLine ==
    /\ pc = "loop" /\ i < Len(inputs)
    /\ Trim(inputs[i + 1]) = <<>>
    /\ results' = Append(results, Failure(Err("Empty input", 0, <<>>)))
    /\ i' = i + 1
    /\ UNCHANGED << inputs, operation, onProgress, progress, yields, pc >>
    /\ UNCHANGED << dmsVars, geoVars, uiVars >>

\* lines 226 and 232-250: the result of the selected operation on the trimmed line
ItemResult(line, op) == RunOperation(op, Trim(line))

\* lines 232-262 without a callback
ProcessItem ==
    /\ pc = "loop" /\ i < Len(inputs)
    /\ Trim(inputs[i + 1]) # <<>>
    /\ onProgress = "absent"
    /\ results' = Append(results, ItemResult(inputs[i + 1], operation))
    /\ IF i % YieldEvery = 0
       THEN pc' = "yield" /\ i' = i
       ELSE pc' = "loop" /\ i' = i + 1
    /\ UNCHANGED << inputs, operation, onProgress, progress, yields >>
    /\ UNCHANGED << dmsVars, geoVars, uiVars >>

\* lines 232-262, the callback returns
ProcessItemReport ==
    /\ pc = "loop" /\ i < Len(inputs)
    /\ Trim(inputs[i + 1]) # <<>>
    /\ onProgress = "given"
    /\ results' = Append(results, ItemResult(inputs[i + 1], operation))
    /\ progress' = Append(progress, [num |-> (i + 1) * 100, den |-> Len(inputs)])
    /\ IF i % YieldEvery = 0
       THEN pc' = "yield" /\ i' = i
       ELSE pc' = "loop" /\ i' = i + 1
    /\ UNCHANGED << inputs, operation, onProgress, yields >>
    /\ UNCHANGED << dmsVars, geoVars, uiVars >>

\* lines 232-256 and 264-269: the callback throws after the result was pushed
ProcessItemThrow ==
    /\ pc = "loop" /\ i < Len(inputs)
    /\ Trim(inputs[i + 1]) # <<>>
    /\ onProgress = "given"
    /\ results' = Append(Append(results, ItemResult(inputs[i + 1], operation)),
                         Failure(CallbackError))
    /\ i' = i + 1
    /\ UNCHANGED << inputs, operation, onProgress, progress, yields, pc >>
    /\ UNCHANGED << dmsVars, geoVars, uiVars >>

\* line 261: the timer fires and the loop goes on with the next item
Resume ==
    /\ pc = "yield"
    /\ yields' = yields + 1
    /\ i' = i + 1
    /\ pc' = "loop"
    /\ UNCHANGED << inputs, operation, onProgress, results, progress >>
    /\ UNCHANGED << dmsVars, geoVars, uiVars >>

\* line 272
Finish ==
    /\ pc = "loop" /\ i >= Len(inputs)
    /\ pc' = "done"
    /\ UNCHANGED << inputs, operation, onProgress, i, results, progress, yields >>
    /\ UNCHANGED << dmsVars, geoVars, uiVars >>

Next ==
    \/ EmptyLine
    \/ ProcessItem
    \/ ProcessItemReport
    \/ ProcessItemThrow
    \/ Resume
    \/ Finish

Spec == Init /\ [][Next]_vars

(***************************************************************************)
(* batchProcess on batches one line longer than the yield interval, with   *)
(* blank lines at the indices where the loop yields.                       *)
(***************************************************************************)
YieldBatches ==
    { [k \in 1..(YieldEvery + 1) |-> IF k \in blanks THEN LineBlank ELSE LineDecimal] :
        blanks \in SUBSET {1, YieldEvery + 1} }

InitYield ==
    /\ inputs \in YieldBatches
    /\ operation = "validate"
    /\ onProgress \in {"absent", "given"}
    /\ i = 0
    /\ results = <<>>
    /\ progress = <<>>
    /\ yields = 0
    /\ pc = "loop"
    /\ DmsIdle
    /\ GeoIdle
    /\ UiIdle

SpecYield == InitYield /\ [][Next]_vars

(***************************************************************************)
(* decimalToDMS and DMSConverter on drawn inputs.  Coordinates are in      *)
(* units of 1/Unit degree, so 16559996 is 45 deg 59 min 59.96 s.           *)
(***************************************************************************)
MaxPrecision == 2

SampleLatitudes ==
    { 0, 45 * Unit + 30 * 6000 + 1500, 45 * Unit + 59 * 6000 + 5996,
      -(33 * Unit + Unit \div 2), 90 * Unit }
SampleLongitudes ==
    { 0, -(122 * Unit + 40 * 6000 + 3000), 180 * Unit,
      -(179 * Unit + 59 * 6000 + 5999), 10 * Unit + Unit \div 2 }

\* N45°30'15"
TokenSymbols ==
    << "N", "4", "5", "°", "3", "0", "'", "1", "5", "\"" >>
\* N453015
TokenCompact ==
    << "N", "4", "5", "3", "0", "1", "5" >>
\* 45°30'15"N
TokenTrailing ==
    << "4", "5", "°", "3", "0", "'", "1", "5", "\"", "N" >>
\* N45°30'60"
TokenSeconds60 ==
    << "N", "4", "5", "°", "3", "0", "'", "6", "0", "\"" >>
\* N456015
TokenMinutes60 ==
    << "N", "4", "5", "6", "0", "1", "5" >>
\* E200°10'10"
TokenDegrees200 ==
    << "E", "2", "0", "0", "°", "1", "0", "'", "1", "0", "\"" >>
\* E106015
TokenReinterpreted ==
    << "E", "1", "0", "6", "0", "1", "5" >>
\* xyz
TokenBogus ==
    << "x", "y", "z" >>

\* N45
TokenDegreesOnly ==
    << "N", "4", "5" >>
\* W122
TokenThreeDigits ==
    << "W", "1", "2", "2" >>
\* N45.5
TokenFraction ==
    << "N", "4", "5", ".", "5" >>
\* 45N
TokenDegreesBefore ==
    << "4", "5", "N" >>
\* N5
TokenOneDigit ==
    << "N", "5" >>

TokenTexts ==
    { TokenSymbols, TokenCompact, TokenTrailing, TokenSeconds60, TokenMinutes60,
      TokenDegrees200, TokenReinterpreted, TokenBogus, TokenDegreesOnly,
      TokenThreeDigits, TokenFraction, TokenDegreesBefore, TokenOneDigit }

\* E10°0'0" N45°0'0"
PairEastNorth ==
    << "E", "1", "0", "°", "0", "'", "0", "\"", " ", "N", "4", "5", "°", "0",
       "'", "0", "\"" >>
\* N45°30'15" N10°0'0"
PairNorthNorth ==
    << "N", "4", "5", "°", "3", "0", "'", "1", "5", "\"", " ", "N", "1", "0",
       "°", "0", "'", "0", "\"" >>
\* S33°30'0" W70°15'0"
PairSouthWest ==
    << "S", "3", "3", "°", "3", "0", "'", "0", "\"", " ", "W", "7", "0", "°",
       "1", "5", "'", "0", "\"" >>
\* the empty string
PairEmpty ==
    << >>
\* ,
PairCommaOnly ==
    << "," >>
\* N45°30'15"
PairSingleToken ==
    << "N", "4", "5", "°", "3", "0", "'", "1", "5", "\"" >>
\* 18TWL8396007523
PairMgrs ==
    << "1", "8", "T", "W", "L", "8", "3", "9", "6", "0", "0", "7", "5", "2",
       "3" >>
\* 45
PairSingleNumber ==
    << "4", "5" >>
\* 1-2
PairSignJoined ==
    << "1", "-", "2" >>
\* N45 30 15
HalfLat3 ==
    << "N", "4", "5", " ", "3", "0", " ", "1", "5" >>
\* N45 30
HalfLat2 ==
    << "N", "4", "5", " ", "3", "0" >>
\* N453015
HalfLat1 ==
    << "N", "4", "5", "3", "0", "1", "5" >>
\* N45 0 0
HalfLatZero ==
    << "N", "4", "5", " ", "0", " ", "0" >>
\* W122 40 30
HalfLon3 ==
    << "W", "1", "2", "2", " ", "4", "0", " ", "3", "0" >>
\* W122 40
HalfLon2 ==
    << "W", "1", "2", "2", " ", "4", "0" >>
\* 00E
HalfLon1 ==
    << "0", "0", "E" >>

PairTexts ==
    { PairEastNorth, PairNorthNorth, PairSouthWest, PairEmpty, PairCommaOnly,
      PairSingleToken, PairMgrs, PairSingleNumber, PairSignJoined }

\* pairs written as a latitude and a longitude of 3 and 3, 2 and 3, 3 and 2,
\* 1 and 3, and 3 and 1 tokens
WrittenPairs ==
    { [lat |-> HalfLat3, lon |-> HalfLon3], [lat |-> HalfLat2, lon |-> HalfLon3],
      [lat |-> HalfLat3, lon |-> HalfLon2], [lat |-> HalfLat1, lon |-> HalfLon3],
      [lat |-> HalfLatZero, lon |-> HalfLon1] }

PartsSet ==
    { DMSParts(deg, min, sec, dir) :
        deg \in { <<"4", "5">>, <<"1", "8", "0">>, <<"1", "8", "1">>, <<"2", "0", "0">> },
        min \in { <<>>, <<"3", "0">>, <<"5", "9">>, <<"6", "0">> },
        sec \in { <<>>, <<"1", "5", ".", "5">>, <<"5", "9", ".", "9", "9">>, <<"6", "0">> },
        dir \in { "N", "S", "E", "W", "w" } }

TextSource(kind, t) ==
    [kind |-> kind, latitude |-> 0, longitude |-> 0, precision |-> 0, text |-> t]

Sources ==
    { [kind |-> "coordinate", latitude |-> la, longitude |-> lo, precision |-> p,
       text |-> <<>>] : la \in SampleLatitudes, lo \in SampleLongitudes,
                        p \in 0..MaxPrecision }
      \cup { TextSource("token", t) : t \in TokenTexts }
      \cup { TextSource("pair", t) : t \in Range(TestLines) \cup PairTexts }

InitDMS ==
    /\ \/ /\ source \in Sources
          /\ written = NoWritten
          /\ parts = NoParts
       \/ /\ written \in WrittenPairs
          /\ source = TextSource("pair", written.lat \o <<" ">> \o written.lon)
          /\ parts = NoParts
       \/ /\ parts \in PartsSet
          /\ source = TextSource("parts", <<>>)
          /\ written = NoWritten
    /\ text = source.text
    /\ token = NoToken
    /\ parsed = NoPair
    /\ format = NoFormat
    /\ converted = NoConversion
    /\ partsResult = NoToken
    /\ dpc = "start"
    /\ BatchIdle
    /\ GeoIdle
    /\ UiIdle

\* CoordinateUtils.decimalToDMS on the drawn coordinate
Format ==
    /\ dpc = "start" /\ source.kind = "coordinate"
    /\ text' = decimalToDMS(source.latitude, source.longitude, source.precision)
    /\ dpc' = "formatted"
    /\ UNCHANGED << source, token, parsed, written, format, converted, parts, partsResult >>
    /\ UNCHANGED << batchVars, geoVars, uiVars >>

\* DMSConverter.parseCoordinatePair on the formatted or the drawn text
ParsePair ==
    /\ \/ dpc = "formatted"
       \/ dpc = "start" /\ source.kind = "pair"
    /\ parsed' = parseCoordinatePair(text)
    /\ dpc' = "parsed"
    /\ UNCHANGED << source, text, token, written, format, converted, parts, partsResult >>
    /\ UNCHANGED << batchVars, geoVars, uiVars >>

\* DMSConverter.dmsToDecimal on the drawn token
ParseToken ==
    /\ dpc = "start" /\ source.kind = "token"
    /\ token' = dmsToDecimal(text)
    /\ dpc' = "parsed"
    /\ UNCHANGED << source, text, parsed, written, format, converted, parts, partsResult >>
    /\ UNCHANGED << batchVars, geoVars, uiVars >>

\* DMSConverter.parseDMS on the drawn parts
ParseParts ==
    /\ dpc = "start" /\ source.kind = "parts"
    /\ partsResult' = parseDMS(parts)
    /\ dpc' = "parsed"
    /\ UNCHANGED << source, text, token, parsed, written, format, converted, parts >>
    /\ UNCHANGED << batchVars, geoVars, uiVars >>

\* CoordinateUtils.detectFormat on the drawn text
Classify ==
    /\ source.kind \in {"pair", "token"} /\ format = NoFormat
    /\ format' = detectFormat(text)
    /\ UNCHANGED << source, text, token, parsed, dpc, written, converted, parts,
                    partsResult >>
    /\ UNCHANGED << batchVars, geoVars, uiVars >>

\* CoordinateUtils.convertCoordinate on the drawn text
Convert ==
    /\ source.kind = "pair" /\ converted = NoConversion
    /\ converted' = convertCoordinate(text)
    /\ UNCHANGED << source, text, token, parsed, dpc, written, format, parts,
                    partsResult >>
    /\ UNCHANGED << batchVars, geoVars, uiVars >>

NextDMS ==
    \/ Format
    \/ ParsePair
    \/ ParseToken
    \/ ParseParts
    \/ Classify
    \/ Convert

SpecDMS == InitDMS /\ [][NextDMS]_vars

(***************************************************************************)
(* calculateDistance and toUTM on drawn points.  No two points of the grid *)
(* are antipodal or nearly so.                                             *)
(***************************************************************************)
GeoLatitudes == { 10 * Unit, 45 * Unit, 60 * Unit, -(33 * Unit + Unit \div 2), 89 * Unit }
GeoLongitudes == { 0, -(3 * Unit) \div 1000, 90 * Unit, 180 * Unit, -74 * Unit }

Coordinates ==
    { [latitude |-> la, longitude |-> lo] : la \in GeoLatitudes, lo \in GeoLongitudes }

InitGeo ==
    /\ coord1 \in Coordinates
    /\ coord2 \in Coordinates
    /\ distanceResult = NoDistance
    /\ swappedResult = NoDistance
    /\ utmResult = NoUTM
    /\ BatchIdle
    /\ DmsIdle
    /\ UiIdle

\* CoordinateUtils.calculateDistance(coord1, coord2)
Calculate ==
    /\ distanceResult = NoDistance
    /\ distanceResult' = calculateDistance(coord1, coord2)
    /\ UNCHANGED << coord1, coord2, swappedResult, utmResult >>
    /\ UNCHANGED << batchVars, dmsVars, uiVars >>

\* CoordinateUtils.calculateDistance(coord2, coord1)
CalculateSwapped ==
    /\ swappedResult = NoDistance
    /\ swappedResult' = calculateDistance(coord2, coord1)
    /\ UNCHANGED << coord1, coord2, distanceResult, utmResult >>
    /\ UNCHANGED << batchVars, dmsVars, uiVars >>

\* CoordinateUtils.toUTM(coord1)
ConvertUTM ==
    /\ utmResult = NoUTM
    /\ utmResult' = toUTM(coord1.latitude, coord1.longitude)
    /\ UNCHANGED << coord1, coord2, distanceResult, swappedResult >>
    /\ UNCHANGED << batchVars, dmsVars, uiVars >>

NextGeo ==
    \/ Calculate
    \/ CalculateSwapped
    \/ ConvertUTM

SpecGeo == InitGeo /\ [][NextGeo]_vars

(***************************************************************************)
(* Properties                                                              *)
(***************************************************************************)
\* C1: for every latitude in [-90,90], longitude in [-180,180] and precision
\* p, the string of decimalToDMS(lat, lon, p) is accepted by
\* parseCoordinatePair and the parsed latitude and longitude each differ from
\* the originals by less than 10^-p degrees.
C1_RoundTrip ==
    dpc = "parsed" /\ source.kind = "coordinate"
      => /\ parsed.ok
         /\ Abs(parsed.latitude - source.latitude) < Unit \div Pow10(source.precision)
         /\ Abs(parsed.longitude - source.longitude) < Unit \div Pow10(source.precision)

RangeMessages ==
    { "Degrees must be between 0 and 180, got", "Minutes must be between 0 and 59, got",
      "Seconds must be between 0 and 59, got" }

\* a failure of parseDMS's range checks: its message names the field and
\* carries the value
RangeFailure(r) == ~r.ok /\ r.error.msg \in RangeMessages

\* the token matches a grammar with a field outside its range
FieldOutOfRange(dms) ==
    \/ RangeFailure(compactDMSToDecimal(Trim(dms)))
    \/ RangeFailure(looseDMSToDecimal(Trim(dms)))

\* C2: for every DMS token that matches a grammar but has degrees, minutes or
\* seconds outside their range, dmsToDecimal returns an out-of-range failure
\* whose message names the offending field and value.
C2_RangeFailureNamesField ==
    dpc = "parsed" /\ source.kind = "token" /\ FieldOutOfRange(text)
      => RangeFailure(token)

\* lines 226-250: the outcome of one input line
LineOutcome(line, op) ==
    IF Trim(line) = <<>> THEN Failure(Err("Empty input", 0, <<>>))
    ELSE ItemResult(line, op)

\* C3: for every input sequence, operation and progress callback (absent,
\* returning or raising), the returned sequence has exactly one outcome per
\* input line, the outcome at position k being that of line k.
C3_OneOutcomePerLine ==
    pc = "done"
      => /\ Len(results) = Len(inputs)
         /\ \A k \in 1..Len(inputs) : results[k] = LineOutcome(inputs[k], operation)

\* the lines the loop has handled
Processed == IF pc = "yield" THEN i + 1 ELSE i

\* the outcomes of the items: the results without the entries the catch
\* clause adds for a raising callback
ItemOutcomes == SelectSeq(results, LAMBDA r : r.error # CallbackError)

\* C4: a whitespace-only line yields the failure 'Empty input', a failure of
\* the single-item operation is recorded as that item's outcome, and in both
\* cases every later line is still processed, in input order: every handled
\* line has one outcome, and the returned batch holds the outcome of every
\* line, in the order of the lines.
C4_PerItemIsolation ==
    /\ Len(ItemOutcomes) = Processed
    /\ pc = "done"
         => /\ Processed = Len(inputs)
            /\ \A k \in 1..Len(inputs) :
                   ItemOutcomes[k] = LineOutcome(inputs[k], operation)

\* a failed conversion is followed by a whitespace-only line, and both are
\* recorded in the returned batch
C4_Witness ==
    /\ pc = "done" /\ Len(inputs) = 2 /\ Len(results) = 2
    /\ Trim(inputs[1]) # <<>> /\ ~results[1].success
    /\ Trim(inputs[2]) = <<>> /\ results[2].error.msg = "Empty input"

\* C5: every successful conversion of text to a coordinate returns latitude
\* in [-90,90] and longitude in [-180,180], for DMS-classified and for
\* decimal-degree-classified input.
C5_SuccessWithinRanges ==
    \A k \in 1..Len(results) :
        results[k].success /\ results[k].data.kind = "coord"
          => validateCoordinate(results[k].data.latitude, results[k].data.longitude)

\* C6: for every coordinate with latitude in [-90,90] and longitude in
\* [-180,180], bounds included, the zone returned by toUTM is in 1..60.
C6_ZoneInRange ==
    utmResult # NoUTM /\ validateCoordinate(coord1.latitude, coord1.longitude)
      => utmResult.zone \in 1..60

\* C7: the result of calculateDistance has distance >= 0 and both returned
\* bearings (rounded, in hundredths of a degree) in [0, 360).
C7_BearingsInRange ==
    distanceResult # NoDistance
      => /\ distanceResult.distance >= 0
         /\ distanceResult.bearing >= 0 /\ distanceResult.bearing < 360 * 100
         /\ distanceResult.reverseBearing >= 0
         /\ distanceResult.reverseBearing < 360 * 100

\* the difference of two bearings around the circle, in hundredths of a degree
BearingDifference(a, b) == Min2((a - b) % (360 * 100), (b - a) % (360 * 100))

\* C8: the reverse bearing of calculateDistance(A, B) equals the forward
\* bearing of calculateDistance(B, A), within the rounding (0.01 degree).
C8_ReverseIsForwardOfSwapped ==
    distanceResult # NoDistance /\ swappedResult # NoDistance
      => BearingDifference(distanceResult.reverseBearing, swappedResult.bearing) <= 1

\* C9: calculateDistance(A, B).distance equals calculateDistance(B, A).distance.
C9_DistanceSymmetric ==
    distanceResult # NoDistance /\ swappedResult # NoDistance
      => distanceResult.distance = swappedResult.distance

\* both distances are computed for two points of different latitude and
\* longitude
C9_Witness ==
    /\ distanceResult # NoDistance /\ swappedResult # NoDistance
    /\ coord1.latitude # coord2.latitude /\ coord1.longitude # coord2.longitude
    /\ distanceResult.distance > 0

\* README, Supported Formats: the four example inputs
ReadmeExamples == { LineSymbols, LineCompact, LineTrailing, LineSpaces }

\* C10: each of the four example inputs of the supported formats and the
\* decimal pair 45.5042, -122.6751 is classified as DMS or decimal degrees (operation validate) and converted
\* successfully (operation convert).
C10_ReadmeFormatsConvert ==
    pc = "done" /\ onProgress = "absent"
      => \A k \in 1..Len(inputs) :
            inputs[k] \in ReadmeExamples \cup {LineDecimal}
              => /\ operation = "validate"
                      => results[k].success /\ results[k].data.format \in {DMS, DD}
                 /\ operation = "convert" => results[k].success

\* no entry of the results was added for a raising callback
NoCallbackRaised == \A k \in 1..Len(results) : results[k].error # CallbackError

\* C11: a supplied progress callback is invoked exactly once after each input
\* item, in input order, with (completedCount / total) * 100, for every item
\* (succeeded, failed or empty line), so that the last invocation reports 100.
C11_ProgressAfterEachItem ==
    pc = "done" /\ onProgress = "given" /\ NoCallbackRaised
      => progress = [k \in 1..Len(inputs) |-> [num |-> k * 100, den |-> Len(inputs)]]

\* an outcome record: a success with data, or a failure with a message
IsOutcome(r) ==
    /\ r.format # "raised"
    /\ r.success => r.data.kind # "none" /\ r.error = NoError
    /\ ~r.success => r.data = NoData /\ r.error.msg # ""

\* the guards of the steps of batchProcess: the timer of a yield is pending,
\* the loop has ended, or the next line is an empty line or an item
BatchCanStep ==
    \/ pc = "yield"
    \/ pc = "loop" /\ i >= Len(inputs)
    \/ pc = "loop" /\ i < Len(inputs) /\ Trim(inputs[i + 1]) = <<>>
    \/ pc = "loop" /\ i < Len(inputs) /\ Trim(inputs[i + 1]) # <<>>
         /\ onProgress \in {"absent", "given"}

\* C12: every single-item operation (validate, convert, toUTM, toDMS) returns
\* an outcome record for every input and never raises, and the promise of
\* batchProcess never rejects: until it resolves the batch has a next step.
C12_OperationsTotal ==
    /\ \A k \in 1..Len(results) : IsOutcome(results[k])
    /\ pc # "done" => BatchCanStep

\* a batch has resolved with a success and a failure of a conversion
C12_Witness ==
    /\ pc = "done" /\ Len(results) = 2
    /\ results[1].success /\ ~results[2].success
    /\ results[2].error.msg = "Latitude must be between -90 and 90 degrees, got"

\* line 141: the tokens of a pair
Tokens(t) == NonEmptyParts(SplitOn(WhiteSpace \cup {","}, t))

\* lines 148-153: the latitude and the longitude candidate of a pair
LatCandidate(t) == JoinWith(" ", SubSeq(Tokens(t), 1, Len(Tokens(t)) \div 2))
LonCandidate(t) == JoinWith(" ", SubSeq(Tokens(t), Len(Tokens(t)) \div 2 + 1, Len(Tokens(t))))

\* the direction rule on the parsed halves lat and lon and the result of the pair
AxisRule(lat, lon, result) ==
    lat.ok /\ lon.ok
      => /\ lat.direction \notin {"N", "S"}
              => ~result.ok
                 /\ result.error.msg = "Invalid latitude direction: Must be N or S."
         /\ lat.direction \in {"N", "S"} /\ lon.direction \notin {"E", "W"}
              => ~result.ok
                 /\ result.error.msg = "Invalid longitude direction: Must be E or W."
         /\ result.ok => lat.direction \in {"N", "S"} /\ lon.direction \in {"E", "W"}

\* C13: when both halves of a pair parse, parseCoordinatePair fails with a
\* wrong-direction error if the latitude half carries E or W or the longitude
\* half carries N or S, and returns a coordinate only for a latitude
\* direction N or S and a longitude direction E or W.
C13_AxisDirections ==
    dpc = "parsed" /\ source.kind = "pair" /\ Len(Tokens(text)) >= 2
      => AxisRule(dmsToDecimal(LatCandidate(text)), dmsToDecimal(LonCandidate(text)),
                  parsed)

\* a pair whose latitude half carries E has been refused
C13_Witness ==
    /\ dpc = "parsed" /\ text = PairEastNorth
    /\ ~parsed.ok /\ parsed.error.msg = "Invalid latitude direction: Must be N or S."

\* C14: parseCoordinatePair fails with the empty-input error on every blank
\* string and with the missing-component error on every non-blank string of
\* fewer than two tokens, so no grammar or range error is reported for them.
C14_EmptyAndMissingComponent ==
    dpc = "parsed" /\ source.kind = "pair"
      => /\ Trim(text) = <<>>
              => ~parsed.ok /\ parsed.error.msg = "Input cannot be empty."
         /\ Trim(text) # <<>> /\ Len(Tokens(text)) < 2
              => ~parsed.ok
                 /\ parsed.error.msg = "Input must include both latitude and longitude."

\* a non-blank text of fewer than two tokens has been refused
C14_Witness ==
    /\ dpc = "parsed" /\ source.kind = "pair"
    /\ text \in {PairSingleToken, PairCommaOnly}
    /\ parsed.error.msg = "Input must include both latitude and longitude."

\* none of the six patterns of detectFormat matches cleaned
NoGrammar(cleaned) ==
    /\ \A pattern \in {DmsPattern1, DmsPattern2, DmsPattern3} : ~TestSearch(pattern, cleaned)
    /\ \A pattern \in {UtmPattern, MgrsPattern, DdPattern} : ~TestAnchored(pattern, cleaned)

\* C15: detectFormat returns one of the five formats for every input, and
\* UNKNOWN for an input that matches no pattern.
C15_ClassifierTotal ==
    format # NoFormat
      => /\ format \in CoordinateFormat
         /\ NoGrammar(ToUpper(Trim(text))) => format = UNKNOWN

\* a text matching no pattern has been classified
C15_Witness ==
    format = UNKNOWN /\ NoGrammar(ToUpper(Trim(text))) /\ Trim(text) # <<>>

\* the token matches the compact grammar of line 58
MatchesCompact(dms) == MatchAnchored(CompactRegex, Trim(dms)).ok

\* C16: whenever a token matches the compact grammar, the outcome of
\* dmsToDecimal, value or failure, is the one of the compact interpretation.
SameOutcome(result, compact) ==
    /\ result.ok = compact.ok
    /\ result.ok => result = compact

C16_CompactMatchWins ==
    dpc = "parsed" /\ source.kind = "token" /\ MatchesCompact(text)
      => SameOutcome(token, compactDMSToDecimal(Trim(text)))

\* C17: every input classified as decimal degrees splits on runs of commas
\* and whitespace into exactly two numeric tokens, and convertCoordinate
\* succeeds on it.
C17_DecimalHasTwoNumbers ==
    format = DD /\ converted # NoConversion
      => /\ Len(DecimalParts(text)) = 2
         /\ \A k \in 1..Len(DecimalParts(text)) : ~ParseFloat(Trim(DecimalParts(text)[k])).nan
         /\ converted.success

\* the template of line 119: `${direction}${degrees}°${minutes}'${seconds}"`
DMSTemplate ==
    << One(DirLetters), Plus(Digits), One({DegSign}), Plus(Digits), One({Apos}),
       Plus(Digits), Opt(<< One({"."}), Plus(Digits) >>), One({DQuote}) >>

\* the degrees, minutes and seconds written in one axis of the string
FieldsOf(match, s) ==
    IF ~match.ok THEN [ok |-> FALSE, degrees |-> 0, minutes |-> 0, seconds |-> 0]
    ELSE [ ok |-> TRUE,
           degrees |-> ParseFloat(Group(match, s, 2)).v,
           minutes |-> ParseFloat(Group(match, s, 4)).v,
           seconds |-> ParseFloat(GroupSpan(match, s, 6, 7)).v ]

EmittedFields(s) == FieldsOf(MatchAnchored(DMSTemplate, s), s)

\* the fields written for the coordinate v: degrees floor(|v|), whole
\* minutes in [0,59], seconds in [0,60)
Sexagesimal(fields, v) ==
    /\ fields.ok
    /\ fields.degrees = (Abs(v) \div Unit) * Unit
    /\ fields.minutes % Unit = 0
    /\ 0 <= fields.minutes /\ fields.minutes <= 59 * Unit
    /\ 0 <= fields.seconds /\ fields.seconds < 60 * Unit

\* C18: each axis of the string of decimalToDMS carries degrees floor(|v|),
\* whole minutes in [0,59] and seconds in [0,60): the seconds are never 60.
C18_EmittedFieldsSexagesimal ==
    dpc = "formatted"
      => /\ Len(Tokens(text)) = 2
         /\ Sexagesimal(EmittedFields(Tokens(text)[1]), source.latitude)
         /\ Sexagesimal(EmittedFields(Tokens(text)[2]), source.longitude)

\* the result for the latitude and the longitude as they were written
WrittenValue(lat, lon) == CheckPair(dmsToDecimal(lat), dmsToDecimal(lon))

\* the candidates of lines 151-152 are the written latitude and longitude
SplitAtBoundary(t, lat, lon) ==
    /\ LatCandidate(t) = JoinWith(" ", Tokens(lat))
    /\ LonCandidate(t) = JoinWith(" ", Tokens(lon))

\* the longitude was written with as many tokens as the latitude, or one more
BoundaryAtMidpoint(lat, lon) == Len(Tokens(lon)) - Len(Tokens(lat)) \in {0, 1}

\* C19 as stated: every pair whose latitude and longitude were written with
\* unequal token counts fails or yields values other than the written ones.
C19_UnequalCountsMisSplit ==
    dpc = "parsed" /\ written # NoWritten
      /\ Len(Tokens(written.lat)) # Len(Tokens(written.lon))
      => \/ ~parsed.ok
         \/ parsed # WrittenValue(written.lat, written.lon)

\* C19: parseCoordinatePair parses the first floor(n/2) tokens as latitude
\* and the remaining tokens as longitude; the split is at the written
\* boundary exactly when the longitude has as many tokens as the latitude or
\* one more, and the result is then the one of the written halves.
C19_MidpointSplit ==
    dpc = "parsed" /\ written # NoWritten
      => /\ parsed = CheckPair(dmsToDecimal(LatCandidate(text)),
                               dmsToDecimal(LonCandidate(text)))
         /\ SplitAtBoundary(text, written.lat, written.lon)
              <=> BoundaryAtMidpoint(written.lat, written.lon)
         /\ BoundaryAtMidpoint(written.lat, written.lon)
              => parsed = WrittenValue(written.lat, written.lon)

\* a two-token latitude followed by a three-token longitude has been parsed
\* to the written values
C19_Witness ==
    /\ dpc = "parsed" /\ written # NoWritten
    /\ Len(Tokens(written.lat)) + 1 = Len(Tokens(written.lon))
    /\ parsed.ok /\ parsed = WrittenValue(written.lat, written.lon)

DegreesOut(deg) == ~(0 <= deg /\ deg <= 180 * Unit)
MinutesOut(minutes) == ~(0 <= minutes /\ minutes < 60 * Unit)
SecondsOut(seconds) == ~(0 <= seconds /\ seconds < 60 * Unit)

\* the failure with message msg about the value num
FailsWith(result, msg, num) ==
    ~result.ok /\ result.error.msg = msg /\ result.error.num = num

\* the first failing check, degrees then minutes then seconds, decides the
\* error; with none failing the value is deg + minutes/60 + seconds/3600,
\* negative for S and W
RangeOrder(deg, minutes, seconds, direction, result) ==
    /\ DegreesOut(deg) => FailsWith(result, "Degrees must be between 0 and 180, got", deg)
    /\ ~DegreesOut(deg) /\ MinutesOut(minutes)
         => FailsWith(result, "Minutes must be between 0 and 59, got", minutes)
    /\ ~DegreesOut(deg) /\ ~MinutesOut(minutes) /\ SecondsOut(seconds)
         => FailsWith(result, "Seconds must be between 0 and 59, got", seconds)
    /\ ~DegreesOut(deg) /\ ~MinutesOut(minutes) /\ ~SecondsOut(seconds)
         => /\ result.ok
            /\ direction \in {"S", "W"}
                 => result.decimal = -(deg + minutes \div 60 + seconds \div 3600)
            /\ direction \notin {"S", "W"}
                 => result.decimal = deg + minutes \div 60 + seconds \div 3600

\* C20: parseDMS checks degrees, then minutes, then seconds, and raises the
\* error of the first failing check; when all pass, the result is
\* degrees + minutes/60 + seconds/3600, negated exactly for S and W.
C20_RangeCheckOrder ==
    dpc = "parsed" /\ source.kind = "parts"
      => RangeOrder(ParseFloat(parts.deg).v, FloatOrZero(parts.min), FloatOrZero(parts.sec),
                    UpperChar(parts.dir), partsResult)

\* parts with all three fields out of range have been refused for the degrees
C20_Witness ==
    /\ dpc = "parsed" /\ source.kind = "parts"
    /\ DegreesOut(ParseFloat(parts.deg).v) /\ MinutesOut(FloatOrZero(parts.min))
    /\ SecondsOut(FloatOrZero(parts.sec))
    /\ partsResult.error.msg = "Degrees must be between 0 and 180, got"

\* C21: the reverse bearing returned by calculateDistance equals the returned
\* forward bearing plus 180 degrees modulo 360, both in hundredths of a degree.
C21_ReverseIsForwardPlus180 ==
    distanceResult # NoDistance
      => distanceResult.reverseBearing = (distanceResult.bearing + 180 * 100) % (360 * 100)

\* C22: no more than 10 consecutive items are handled without a yield, so
\* the i items handled so far are at most 10 for each yield and 10 more.
C22_YieldEveryTenItems ==
    pc \in {"loop", "done"} => i <= YieldEvery * (yields + 1)

(***************************************************************************)
(* CoordinateUtils.toKml and toGeoJson.  An item is a record of two        *)
(* fields; a field an item lacks reads as undefined.  The output is the    *)
(* sequence of the placemarks or features, each with its name and its      *)
(* coordinates.                                                            *)
(***************************************************************************)
Missing == [present |-> FALSE, v |-> 0]
Field(v) == [present |-> TRUE, v |-> v]

\* the value of a field in a condition: undefined and 0 are falsy
Truthy(field) == field.present /\ field.v # 0

\* coord.latitude && coord.longitude
HasPosition(coord) == Truthy(coord.latitude) /\ Truthy(coord.longitude)

\* lines 423-432: the text of one item, '' for an item that fails the test
PlacemarkOf(coord, index) ==
    IF HasPosition(coord)
    THEN << [name |-> index + 1, coordinates |-> <<coord.longitude.v, coord.latitude.v, 0>>] >>
    ELSE <<>>

RECURSIVE JoinAll(_)
\* .join('')
JoinAll(pieces) == IF pieces = <<>> THEN <<>> ELSE Head(pieces) \o JoinAll(Tail(pieces))

\* CoordinateUtils.toKml
toKml(data) == JoinAll([k \in 1..Len(data) |-> PlacemarkOf(data[k], k - 1)])

\* lines 445-455: the feature of the item at position index of the filtered list
FeatureOf(coord, index) ==
    [name |-> index + 1, coordinates |-> <<coord.longitude.v, coord.latitude.v>>]

FeaturesOf(kept) == [k \in 1..Len(kept) |-> FeatureOf(kept[k], k - 1)]

\* CoordinateUtils.toGeoJson
toGeoJson(data) == FeaturesOf(SelectSeq(data, HasPosition))

MaxExport == 3

ExportFields == {Missing, Field(0), Field(45 * Unit)}

ExportItems == { [latitude |-> la, longitude |-> lo] : la \in ExportFields, lo \in ExportFields }

InitExport ==
    /\ exportData \in SeqsUpTo(ExportItems, MaxExport)
    /\ kml = NoExport
    /\ geoJson = NoExport
    /\ BatchIdle
    /\ DmsIdle
    /\ GeoIdle
    /\ ProcIdle
    /\ ChunkIdle
    /\ CalcIdle
    /\ AppIdle

\* exportData(data, ExportFormat.KML)
ExportKml ==
    /\ kml = NoExport
    /\ kml' = [done |-> TRUE, out |-> toKml(exportData)]
    /\ UNCHANGED << exportData, geoJson >>
    /\ UNCHANGED outsideExport

\* exportData(data, ExportFormat.GEOJSON)
ExportGeoJson ==
    /\ geoJson = NoExport
    /\ geoJson' = [done |-> TRUE, out |-> toGeoJson(exportData)]
    /\ UNCHANGED << exportData, kml >>
    /\ UNCHANGED outsideExport

NextExport ==
    \/ ExportKml
    \/ ExportGeoJson

SpecExport == InitExport /\ [][NextExport]_vars

\* the items that expose a latitude and a longitude field
WithFields(data) ==
    SelectSeq(data, LAMBDA coord : coord.latitude.present /\ coord.longitude.present)

\* C23: toKml and toGeoJson emit one placemark or feature for every item
\* that exposes latitude and longitude fields, whatever their values, and
\* exclude exactly the items that lack them.
C23_ExportersKeepItemsWithFields ==
    /\ kml.done => Len(kml.out) = Len(WithFields(exportData))
    /\ geoJson.done => Len(geoJson.out) = Len(WithFields(exportData))

\* a direction letter followed by one run of digits with an optional fraction
RunAfterLetter ==
    << One(IgnoreCase(DirLetters)), Plus(Digits), Opt(<< One({"."}), Plus(Digits) >>) >>
\* one run of digits with an optional fraction followed by a direction letter
RunBeforeLetter ==
    << Plus(Digits), Opt(<< One({"."}), Plus(Digits) >>), One(IgnoreCase(DirLetters)) >>

\* the number written by the single digit run of s, NaN when s has another form
RunOf(after, before, s) ==
    IF after.ok THEN ParseFloat(GroupSpan(after, s, 2, 3))
    ELSE IF before.ok THEN ParseFloat(GroupSpan(before, s, 1, 2))
    ELSE NaN

SingleRun(s) == RunOf(MatchAnchored(RunAfterLetter, s), MatchAnchored(RunBeforeLetter, s), s)

\* the result takes the whole run as degrees, or is a failure
WholeRunOrRejected(run, result) ==
    ~run.nan => ~result.ok \/ Abs(result.decimal) = run.v

\* C24: a token made of a direction letter and one unseparated digit run
\* that the compact grammar does not match is read with the whole run as
\* the degrees, or rejected: one run is never split into several fields.
C24_DigitRunNotSplit ==
    dpc = "parsed" /\ source.kind = "token" /\ ~MatchesCompact(text)
      => WholeRunOrRejected(SingleRun(Trim(text)), token)

\* the line accepted by validate as DMS or decimal degrees
AcceptedAsCoordinate(result) ==
    result.success /\ result.data.format \in {DMS, DD}

\* C25: every line that 'validate' accepts with format DMS or decimal degrees
\* is converted successfully by 'convert'.
C25_ValidatedLinesConvert ==
    pc = "done" /\ operation = "validate" /\ onProgress = "absent"
      => \A k \in 1..Len(results) :
           AcceptedAsCoordinate(results[k]) => LineOutcome(inputs[k], "convert").success

(***************************************************************************)
(* CoordinateCalculator: parseCoordinate, calculate, clear, loadExample    *)
(* and the edits of the two input fields.                                  *)
(***************************************************************************)
\* /^(-?\d+\.?\d*)[,\s]+(-?\d+\.?\d*)$/
DecimalPairRegex ==
    << Maybe({"-"}), Plus(Digits), Maybe({"."}), Star(Digits), Plus(WhiteSpace \cup {","}),
       Maybe({"-"}), Plus(Digits), Maybe({"."}), Star(Digits) >>

\* lines 44-49: the DMS attempt; an exception of the parser is caught
ParsedAsDMS(dmsResult) ==
    IF dmsResult.ok /\ validateCoordinate(dmsResult.latitude, dmsResult.longitude)
    THEN [latitude |-> dmsResult.latitude, longitude |-> dmsResult.longitude]
    ELSE NoCoordinate

\* lines 34-41: the decimal attempt
ParsedAsDecimal(lat, lon, trimmed) ==
    IF validateCoordinate(lat, lon) THEN [latitude |-> lat, longitude |-> lon]
    ELSE ParsedAsDMS(parseCoordinatePair(trimmed))

ParseMatched(decimalMatch, trimmed) ==
    IF decimalMatch.ok
    THEN ParsedAsDecimal(ParseFloat(GroupSpan(decimalMatch, trimmed, 1, 4)).v,
                         ParseFloat(GroupSpan(decimalMatch, trimmed, 6, 9)).v, trimmed)
    ELSE ParsedAsDMS(parseCoordinatePair(trimmed))

ParseTrimmed(trimmed) ==
    IF trimmed = <<>> THEN NoCoordinate
    ELSE ParseMatched(MatchAnchored(DecimalPairRegex, trimmed), trimmed)

\* CoordinateCalculator.parseCoordinate
parseCoordinate(input) == ParseTrimmed(Trim(input))

\* N40°45'00" W73°59'00"
ExamplePoint1 ==
    << "N", "4", "0", "°", "4", "5", "'", "0", "0", "\"", " ", "W", "7", "3", "°",
       "5", "9", "'", "0", "0", "\"" >>
\* N34°03'00" W118°15'00"
ExamplePoint2 ==
    << "N", "3", "4", "°", "0", "3", "'", "0", "0", "\"", " ", "W", "1", "1", "8",
       "°", "1", "5", "'", "0", "0", "\"" >>

\* the texts typed into the input fields
CalcTexts == { <<>>, LineDecimal, LineBogus }

MaxTimers == 2
MaxClears == 2

InitCalc ==
    /\ CalcIdle
    /\ ExportIdle
    /\ AppIdle
    /\ BatchIdle
    /\ DmsIdle
    /\ GeoIdle
    /\ ProcIdle
    /\ ChunkIdle

\* lines 159 and 171: onChange of an input field
EditPoint1 ==
    /\ \E t \in CalcTexts : point1' = t
    /\ UNCHANGED << point2, calcResult, calcError, isCalculating, timers, clears, resultOf >>
    /\ UNCHANGED outsideCalc

EditPoint2 ==
    /\ \E t \in CalcTexts : point2' = t
    /\ UNCHANGED << point1, calcResult, calcError, isCalculating, timers, clears, resultOf >>
    /\ UNCHANGED outsideCalc

\* CoordinateCalculator.loadExample
LoadExample ==
    /\ point1' = ExamplePoint1
    /\ point2' = ExamplePoint2
    /\ UNCHANGED << calcResult, calcError, isCalculating, timers, clears, resultOf >>
    /\ UNCHANGED outsideCalc

\* line 179: the Calculate button is enabled
CanCalculate == ~isCalculating /\ Trim(point1) # <<>> /\ Trim(point2) # <<>>

\* lines 54-67 of calculate with the parsed points coord1 and coord2: up to
\* the throw of lines 60-65 and its catch, or up to the await of line 67
CalculateWith(coord1Parsed, coord2Parsed) ==
    /\ calcResult' = NoDistance
    /\ IF coord1Parsed = NoCoordinate
       THEN /\ calcError' = "Invalid format for first coordinate"
            /\ isCalculating' = FALSE
            /\ timers' = timers
       ELSE IF coord2Parsed = NoCoordinate
       THEN /\ calcError' = "Invalid format for second coordinate"
            /\ isCalculating' = FALSE
            /\ timers' = timers
       ELSE /\ calcError' = ""
            /\ isCalculating' = TRUE
            /\ timers' = Append(timers, [coord1 |-> coord1Parsed, coord2 |-> coord2Parsed,
                                         clears |-> clears])

\* CoordinateCalculator.calculate up to its suspension
StartCalculate ==
    /\ CanCalculate
    /\ Len(timers) < MaxTimers
    /\ CalculateWith(parseCoordinate(point1), parseCoordinate(point2))
    /\ UNCHANGED << point1, point2, clears, resultOf >>
    /\ UNCHANGED outsideCalc

\* lines 69-70 of calculate: the timer of line 67 fires
FinishCalculate ==
    /\ timers # <<>>
    /\ calcResult' = calculateDistance(Head(timers).coord1, Head(timers).coord2)
    /\ isCalculating' = FALSE
    /\ resultOf' = Head(timers).clears
    /\ timers' = Tail(timers)
    /\ UNCHANGED << point1, point2, calcError, clears >>
    /\ UNCHANGED outsideCalc

\* CoordinateCalculator.clear
ClearCalculator ==
    /\ clears < MaxClears
    /\ point1' = <<>>
    /\ point2' = <<>>
    /\ calcResult' = NoDistance
    /\ calcError' = ""
    /\ isCalculating' = FALSE
    /\ clears' = clears + 1
    /\ UNCHANGED << timers, resultOf >>
    /\ UNCHANGED outsideCalc

NextCalc ==
    \/ EditPoint1
    \/ EditPoint2
    \/ LoadExample
    \/ StartCalculate
    \/ FinishCalculate
    \/ ClearCalculator

SpecCalc == InitCalc /\ [][NextCalc]_vars

\* C26: in the calculator no state holds both an error and a result, and
\* after clear the result stays null until a calculate started after that
\* clear completes.
C26_ErrorOrResultAndClearHolds ==
    /\ ~(calcError # "" /\ calcResult # NoDistance)
    /\ calcResult # NoDistance => resultOf = clears

(***************************************************************************)
(* App: performConversion, clearFields, handleInputChange,                 *)
(* toggleReverseMode, loadFromHistory and clearHistory.  A result is the   *)
(* record of what the result string shows: the two numbers and the         *)
(* precision of toFixed for decimal degrees, the text for DMS.             *)
(***************************************************************************)
\* line 179
DefaultPrecision == 6
\* line 257: prev.slice(0, 9)
HistoryKept == 9

Converted(result, detected) ==
    [ok |-> TRUE, result |-> result, status |-> "Conversion successful", format |-> detected]
ConversionFailed(message) == [ok |-> FALSE, result |-> NoResult, status |-> message, format |-> UNKNOWN]

\* `${lat.toFixed(precision)} ${lon.toFixed(precision)}`
DecimalResult(lat, lon, precision) ==
    [kind |-> "decimal", latitude |-> lat, longitude |-> lon, precision |-> precision]

\* lines 211-223: the reverse mode, decimal degrees to DMS
ReverseOf(coords, precision) ==
    IF Len(coords) # 2 \/ \E k \in 1..Len(coords) : coords[k].nan
    THEN ConversionFailed("Invalid decimal degree format. Use: latitude, longitude")
    ELSE IF ~validateCoordinate(coords[1].v, coords[2].v)
    THEN ConversionFailed("Coordinates out of valid range")
    ELSE Converted([kind |-> "dms", text |-> decimalToDMS(coords[1].v, coords[2].v, precision)],
                   UNKNOWN)

\* lines 232-234: the DMS branch
ForwardDMS(parsedPair, precision) ==
    IF parsedPair.ok
    THEN Converted(DecimalResult(parsedPair.latitude, parsedPair.longitude, precision), DMS)
    ELSE ConversionFailed(parsedPair.error.msg)

\* lines 235-240: the decimal branch
ForwardDD(coords, precision) ==
    IF Len(coords) # 2 \/ \E k \in 1..Len(coords) : coords[k].nan
    THEN ConversionFailed("Invalid decimal degree format")
    ELSE Converted(DecimalResult(coords[1].v, coords[2].v, precision), DD)

\* lines 226-245: the forward mode
ForwardOf(detected, input, precision) ==
    CASE detected = UNKNOWN -> ConversionFailed("Unrecognized coordinate format")
      [] detected = DMS -> ForwardDMS(parseCoordinatePair(input), precision)
      [] detected = DD -> ForwardDD(MapParseFloat(DecimalParts(input)), precision)
      [] OTHER -> ConversionFailed("format conversion not yet implemented")

\* lines 209-246 on the state captured by the closure
ConversionOf(captured) ==
    IF captured.reverseMode
    THEN ReverseOf(MapParseFloat(DecimalParts(captured.input)), captured.precision)
    ELSE ForwardOf(detectFormat(captured.input), captured.input, captured.precision)

\* lines 249-255
HistoryEntry(id, captured, result) ==
    [ id |-> id, input |-> captured.input, result |-> result,
      format |-> IF captured.reverseMode THEN DD ELSE captured.detectedFormat ]

\* the history update without the slice of line 257
AddToHistoryUnbounded(historyEntry, prev) == <<historyEntry>> \o prev

\* line 257: [historyEntry, ...prev.slice(0, 9)]
AddToHistory(historyEntry, prev) ==
    <<historyEntry>> \o SubSeq(prev, 1, Min2(HistoryKept, Len(prev)))

\* the texts typed into the input field
AppTexts == { <<>>, LineDecimal, LineBogus }

MaxConversions == 2
MaxSuspended == 1
MaxResets == 1

\* the history after n conversions of the decimal example, the fields cleared
PriorHistory(n) ==
    [ k \in 1..n |->
        [ id |-> n - k + 1, input |-> LineDecimal,
          result |-> ForwardOf(DD, LineDecimal, DefaultPrecision).result, format |-> DD ] ]

PriorLengths == {0, HistoryKept + 1}

InitApp ==
    /\ appInput = <<>> /\ appResult = NoResult /\ isError = FALSE
    /\ detectedFormat = UNKNOWN /\ reverseMode = FALSE /\ isLoading = FALSE
    /\ \E n \in PriorLengths : history = PriorHistory(n) /\ nextId = n + 1
    /\ conversions = <<>> /\ resets = 0 /\ started = 0
    /\ ExportIdle
    /\ CalcIdle
    /\ BatchIdle
    /\ DmsIdle
    /\ GeoIdle
    /\ ProcIdle
    /\ ChunkIdle

\* App.handleInputChange
HandleInputChange ==
    /\ \E value \in AppTexts :
         /\ appInput' = value
         /\ detectedFormat' = (IF Trim(value) # <<>> THEN detectFormat(value) ELSE UNKNOWN)
    /\ isError' = FALSE
    /\ UNCHANGED << appResult, reverseMode, isLoading, history, conversions, nextId, resets,
                    started >>
    /\ UNCHANGED outsideApp

\* lines 194-201 of performConversion: nothing to convert
PerformConversionEmpty ==
    /\ Trim(appInput) = <<>>
    /\ isError' = TRUE
    /\ appResult' = NoResult
    /\ UNCHANGED << appInput, detectedFormat, reverseMode, isLoading, history, conversions,
                    nextId, resets, started >>
    /\ UNCHANGED outsideApp

\* lines 203-207 of performConversion: up to the await of line 207
PerformConversion ==
    /\ Trim(appInput) # <<>>
    /\ Len(conversions) < MaxSuspended
    /\ started < MaxConversions
    /\ isLoading' = TRUE
    /\ isError' = FALSE
    /\ conversions' = Append(conversions,
                             [ input |-> appInput, precision |-> DefaultPrecision,
                               reverseMode |-> reverseMode,
                               detectedFormat |-> detectedFormat, resets |-> resets ])
    /\ started' = started + 1
    /\ UNCHANGED << appInput, appResult, detectedFormat, reverseMode, history, nextId, resets >>
    /\ UNCHANGED outsideApp

\* lines 209-273 with the outcome of the conversion
StoreConversion(captured, outcome) ==
    IF outcome.ok
    THEN /\ history' = AddToHistory(HistoryEntry(nextId, captured, outcome.result), history)
         /\ nextId' = nextId + 1
         /\ appResult' = outcome.result
         /\ isError' = FALSE
         /\ detectedFormat' = (IF captured.reverseMode THEN detectedFormat ELSE outcome.format)
    ELSE /\ isError' = TRUE
         /\ appResult' = NoResult
         /\ UNCHANGED << history, nextId, detectedFormat >>

\* lines 209-273 of performConversion: the timer of line 207 fires
FinishConversion ==
    /\ conversions # <<>>
    /\ StoreConversion(Head(conversions), ConversionOf(Head(conversions)))
    /\ isLoading' = FALSE
    /\ conversions' = Tail(conversions)
    /\ UNCHANGED << appInput, reverseMode, resets, started >>
    /\ UNCHANGED outsideApp

\* App.clearFields
ClearFields ==
    /\ resets < MaxResets
    /\ appInput' = <<>>
    /\ appResult' = NoResult
    /\ isError' = FALSE
    /\ resets' = resets + 1
    /\ UNCHANGED << detectedFormat, reverseMode, isLoading, history, conversions, nextId,
                    started >>
    /\ UNCHANGED outsideApp

\* App.toggleReverseMode
ToggleReverseMode ==
    /\ resets < MaxResets
    /\ reverseMode' = ~reverseMode
    /\ appInput' = <<>>
    /\ appResult' = NoResult
    /\ isError' = FALSE
    /\ resets' = resets + 1
    /\ UNCHANGED << detectedFormat, isLoading, history, conversions, nextId, started >>
    /\ UNCHANGED outsideApp

\* App.loadFromHistory on one of the five entries shown (line 623)
LoadFromHistory ==
    /\ \E k \in 1..Min2(5, Len(history)) :
         /\ appInput' = history[k].input
         /\ appResult' = history[k].result
    /\ isError' = FALSE
    /\ UNCHANGED << detectedFormat, reverseMode, isLoading, history, conversions, nextId,
                    resets, started >>
    /\ UNCHANGED outsideApp

\* App.clearHistory; the button is shown for a non-empty history (line 616)
ClearHistory ==
    /\ history # <<>>
    /\ history' = <<>>
    /\ isError' = FALSE
    /\ UNCHANGED << appInput, appResult, detectedFormat, reverseMode, isLoading, conversions,
                    nextId, resets, started >>
    /\ UNCHANGED outsideApp

NextApp ==
    \/ HandleInputChange
    \/ PerformConversionEmpty
    \/ PerformConversion
    \/ FinishConversion
    \/ ClearFields
    \/ ToggleReverseMode
    \/ LoadFromHistory
    \/ ClearHistory

SpecApp == InitApp /\ [][NextApp]_vars

\* C27: a performConversion that was suspended in its delay when clearFields
\* or toggleReverseMode reset the result neither stores a result nor appends
\* to the history when its timer fires.
C27_SuspendedConversionDropped ==
    [][ conversions # <<>> /\ conversions' = Tail(conversions)
          /\ Head(conversions).resets # resets
          => /\ history' = history
             /\ appResult' = appResult \/ appResult' = NoResult ]_vars

\* at most 10 entries, the newest first
HistoryBounded ==
    /\ Len(history) <= HistoryKept + 1
    /\ \A k \in 1..(Len(history) - 1) : history[k].id > history[k + 1].id

\* a change of the history empties it, or puts the new entry in front of the
\* old ones, without the oldest when there were 10 already
HistoryStep ==
    history' # history
      => \/ history' = <<>>
         \/ /\ history' # <<>>
            /\ history'[1].id = nextId
            /\ Tail(history') = (IF Len(history) = HistoryKept + 1
                                 THEN SubSeq(history, 1, HistoryKept) ELSE history)

\* C30: the history holds at most 10 entries, the newest first, and a
\* successful conversion drops only the oldest entry, and only when the
\* history was already full.
C30_HistoryBoundedAndOrdered == []HistoryBounded /\ [][HistoryStep]_vars

\* the eleventh conversion has pushed the first entry out of a full history
C30_Witness ==
    /\ Len(history) = HistoryKept + 1
    /\ history[1].id = HistoryKept + 2
    /\ history[HistoryKept + 1].id = 2

(***************************************************************************)
(* BatchProcessor.processBatch around batchProcess.  The lines and the     *)
(* operation of the component are drawn at the start; its progress         *)
(* callback stores the reported value and returns.  handleInputChange      *)
(* keeps no blank line in state.inputs, so the empty-line branch of        *)
(* batchProcess is not reached from here.                                  *)
(***************************************************************************)
ProcLines == { LineSymbols, LineDecimal, LineBogus, LineLat95 }

InitProc ==
    /\ stateInputs \in SeqsUpTo(ProcLines, MaxBatch)
    /\ stateOperation \in Operations
    /\ stateResults = <<>>
    /\ isProcessing = FALSE
    /\ stateProgress = Percent(0)
    /\ BatchIdle
    /\ DmsIdle
    /\ GeoIdle
    /\ ExportIdle
    /\ CalcIdle
    /\ AppIdle
    /\ ChunkIdle

\* lines 555-568 of processBatch: up to the call of batchProcess
StartBatch ==
    /\ ~isProcessing
    /\ stateInputs # <<>>
    /\ pc \in {"idle", "returned"}
    /\ isProcessing' = TRUE
    /\ stateProgress' = Percent(0)
    /\ stateResults' = <<>>
    /\ inputs' = stateInputs
    /\ operation' = stateOperation
    /\ onProgress' = "setState"
    /\ i' = 0
    /\ results' = <<>>
    /\ progress' = <<>>
    /\ yields' = 0
    /\ pc' = "loop"
    /\ UNCHANGED << stateInputs, stateOperation >>
    /\ UNCHANGED outsideProc

\* lines 232-262 of batchProcess with the callback of line 568
ProcessItemShow ==
    /\ pc = "loop" /\ i < Len(inputs)
    /\ Trim(inputs[i + 1]) # <<>>
    /\ onProgress = "setState"
    /\ results' = Append(results, ItemResult(inputs[i + 1], operation))
    /\ progress' = Append(progress, [num |-> (i + 1) * 100, den |-> Len(inputs)])
    /\ stateProgress' = [num |-> (i + 1) * 100, den |-> Len(inputs)]
    /\ IF i % YieldEvery = 0
       THEN pc' = "yield" /\ i' = i
       ELSE pc' = "loop" /\ i' = i + 1
    /\ UNCHANGED << inputs, operation, onProgress, yields >>
    /\ UNCHANGED << stateInputs, stateOperation, stateResults, isProcessing >>
    /\ UNCHANGED outsideProc

\* CompleteBatch without the reset of isProcessing
CompleteBatchStillProcessing ==
    /\ pc = "done" /\ isProcessing
    /\ stateResults' = results
    /\ stateProgress' = Percent(100)
    /\ pc' = "returned"
    /\ UNCHANGED << inputs, operation, onProgress, i, results, progress, yields >>
    /\ UNCHANGED << stateInputs, stateOperation, isProcessing >>
    /\ UNCHANGED outsideProc

\* lines 571-576 of processBatch: batchProcess has returned
CompleteBatch ==
    /\ pc = "done" /\ isProcessing
    /\ stateResults' = results
    /\ isProcessing' = FALSE
    /\ stateProgress' = Percent(100)
    /\ pc' = "returned"
    /\ UNCHANGED << inputs, operation, onProgress, i, results, progress, yields >>
    /\ UNCHANGED << stateInputs, stateOperation >>
    /\ UNCHANGED outsideProc

\* the steps the scheduler runs: the loop of batchProcess and its return
RunBatch ==
    \/ ProcessItemShow
    \/ Resume
    \/ Finish
    \/ CompleteBatch

NextProc ==
    \/ StartBatch
    \/ RunBatch

\* RunBatch seen by position alone: it is enabled exactly while the batch is
\* between its start and its return, and each of its steps changes << i, pc >>
Scheduled ==
    /\ pc \in {"loop", "yield", "done"}
    /\ pc' \in {"loop", "yield", "done", "returned"}
    /\ i' \in {i, i + 1}

\* the running code goes on and the scheduler eventually runs each continuation
SpecProc == InitProc /\ [][NextProc]_vars /\ WF_<< i, pc >>(Scheduled)

\* C28: every batch started by processBatch eventually finishes with
\* isProcessing false again, and when batchProcess has returned the stored
\* results are the returned ones and the progress is 100.
C28_BatchEventuallyFinishes ==
    /\ isProcessing ~> ~isProcessing
    /\ [](pc = "returned"
            => ~isProcessing /\ stateResults = results /\ stateProgress = Percent(100)
               /\ Len(stateResults) = Len(stateInputs))

\* a batch of two lines has finished after a timer continuation
C28_Witness ==
    /\ pc = "returned" /\ ~isProcessing
    /\ Len(stateResults) = 2 /\ yields >= 1
    /\ stateProgress = Percent(100)

(***************************************************************************)
(* processInChunks.  The processor is the caller's; here it answers each   *)
(* element of its chunk with one result, in order.  A call that never      *)
(* returns is followed for MaxCalls processor calls.                       *)
(***************************************************************************)
MaxData == 3
MaxCalls == 5

ChunkElements == {"a", "b"}
ChunkSizes == {-1, 0, 1, 2, 3}

\* Array.prototype.slice: a negative index counts from the end
SliceIndex(k, len) == IF k < 0 THEN (IF len + k < 0 THEN 0 ELSE len + k)
                      ELSE (IF k > len THEN len ELSE k)

Slice(data, from, to) ==
    SubSeq(data, SliceIndex(from, Len(data)) + 1, SliceIndex(to, Len(data)))

\* Math.floor(a / b) and Math.ceil(a / b) for b # 0
FloorOf(a, b) == IF b > 0 THEN a \div b ELSE (0 - a) \div (0 - b)
CeilOf(a, b) == 0 - FloorOf(0 - a, b)

ProcessorAnswer(chunk) == [k \in 1..Len(chunk) |-> [of |-> chunk[k]]]

\* lines 491-494: (currentChunk / totalChunks) * 100; a division by zero
\* gives NaN
ChunkProgress(index, size, len) ==
    IF size = 0 \/ CeilOf(len, size) = 0 THEN [kind |-> "NaN"]
    ELSE [kind |-> "number", num |-> (FloorOf(index, size) + 1) * 100, den |-> CeilOf(len, size)]

RECURSIVE Flatten(_)
Flatten(chunks) ==
    IF chunks = <<>> THEN <<>> ELSE Head(chunks) \o Flatten(Tail(chunks))

InitChunks ==
    /\ chunkData \in SeqsUpTo(ChunkElements, MaxData)
    /\ chunkSize \in ChunkSizes
    /\ chunkCallback \in {"absent", "given"}
    /\ ci = 0 /\ passed = <<>> /\ chunkResults = <<>>
    /\ lastProgress = NoProgress /\ cpc = "loop"
    /\ BatchIdle
    /\ DmsIdle
    /\ GeoIdle
    /\ ExportIdle
    /\ CalcIdle
    /\ AppIdle
    /\ ProcIdle

\* lines 486-488: the loop test, the slice and the call of the processor
CallProcessor ==
    /\ cpc = "loop" /\ ci < Len(chunkData)
    /\ Len(passed) < MaxCalls
    /\ passed' = Append(passed, Slice(chunkData, ci, ci + chunkSize))
    /\ cpc' = "processing"
    /\ UNCHANGED << chunkData, chunkSize, chunkCallback, ci, chunkResults, lastProgress >>
    /\ UNCHANGED outsideChunks

\* lines 489-497: the processor has answered; up to the timer
ChunkProcessed ==
    /\ cpc = "processing"
    /\ chunkResults' = chunkResults \o ProcessorAnswer(passed[Len(passed)])
    /\ lastProgress' = IF chunkCallback = "given"
                       THEN ChunkProgress(ci, chunkSize, Len(chunkData))
                       ELSE lastProgress
    /\ cpc' = "timer"
    /\ UNCHANGED << chunkData, chunkSize, chunkCallback, ci, passed >>
    /\ UNCHANGED outsideChunks

\* line 485: the timer has fired; i += chunkSize
ChunkResume ==
    /\ cpc = "timer"
    /\ ci' = ci + chunkSize
    /\ cpc' = "loop"
    /\ UNCHANGED << chunkData, chunkSize, chunkCallback, passed, chunkResults, lastProgress >>
    /\ UNCHANGED outsideChunks

\* line 500
ChunkReturn ==
    /\ cpc = "loop" /\ ci >= Len(chunkData)
    /\ cpc' = "returned"
    /\ UNCHANGED << chunkData, chunkSize, chunkCallback, ci, passed, chunkResults, lastProgress >>
    /\ UNCHANGED outsideChunks

NextChunks ==
    \/ CallProcessor
    \/ ChunkProcessed
    \/ ChunkResume
    \/ ChunkReturn

SpecChunks == InitChunks /\ [][NextChunks]_vars

IsPrefix(p, q) == Len(p) <= Len(q) /\ p = SubSeq(q, 1, Len(p))

\* the chunks passed so far are consecutive pieces of data from its start,
\* none larger than chunkSize
ChunksInOrder ==
    /\ IsPrefix(Flatten(passed), chunkData)
    /\ \A k \in 1..Len(passed) : Len(passed[k]) <= chunkSize

\* what the call has done when it returns
ChunksComplete ==
    /\ Flatten(passed) = chunkData
    /\ chunkResults = ProcessorAnswer(chunkData)
    /\ chunkCallback = "given" /\ chunkData # <<>>
         => lastProgress = [kind |-> "number", num |-> 100 * lastProgress.den, den |-> lastProgress.den]

\* C29: for every data array and every integer chunkSize, processInChunks
\* terminates after passing every element once, in order, in chunks of at
\* most chunkSize elements, returns the chunk results concatenated, and last
\* reports 100.  Each processor call must then take at least one new
\* element, so there are never more calls than elements.
C29_ChunksTerminate ==
    /\ ChunksInOrder
    /\ Len(passed) <= Len(chunkData)
    /\ cpc = "returned" => ChunksComplete

=============================================================================
